---------------------------- MODULE Spec2Model ----------------------------
(***************************************************************************)
(* A model of FG-TextExtract: the four extractors (currency, invoice      *)
(* number, dates, vendor) and the record assembly of main.py.             *)
(*                                                                         *)
(* A Python str is a sequence of one-character strings, so that the       *)
(* regular expressions of the source are matched character by character.  *)
(***************************************************************************)
EXTENDS Integers, Sequences, FiniteSets, TLC

(***************************************************************************)
(* Characters and the str methods the source uses.                        *)
(***************************************************************************)
UpperSeq == <<"A","B","C","D","E","F","G","H","I","J","K","L","M",
              "N","O","P","Q","R","S","T","U","V","W","X","Y","Z">>
LowerSeq == <<"a","b","c","d","e","f","g","h","i","j","k","l","m",
              "n","o","p","q","r","s","t","u","v","w","x","y","z">>
DigitSeq == <<"0","1","2","3","4","5","6","7","8","9">>
UpperLetters == {UpperSeq[i] : i \in 1..26}
LowerLetters == {LowerSeq[i] : i \in 1..26}
Letters == UpperLetters \cup LowerLetters
Digits == {DigitSeq[i] : i \in 1..10}
\* \s of the re module, restricted to the white space the documents contain
Space == {" ", "\n", "\t"}
\* \w of the re module
WordChars == Letters \cup Digits \cup {"_"}
Punct == {":", "$", ".", ",", "/", "-", "#", "&", "_", "(", ")", "'", "!", ";"}
\* the 14 currency symbols of the source's character class [$...]; the 13
\* non-ASCII ones are written as names
CurrencySymbols == {"$", "<euro>", "<pound>", "<yen>", "<rupee>", "<cent>",
                    "<naira>", "<colon>", "<shekel>", "<peso>", "<rupees>",
                    "<won>", "<hryvnia>", "<ruble>"}
AnyChar == Letters \cup Digits \cup Space \cup Punct \cup CurrencySymbols
\* . of the re module: any character but a line break
Dot == AnyChar \ {"\n"}

LowerOf == [c \in UpperLetters |-> LowerSeq[CHOOSE i \in 1..26 : UpperSeq[i] = c]]
UpperOf == [c \in LowerLetters |-> UpperSeq[CHOOSE i \in 1..26 : LowerSeq[i] = c]]
ToLower(c) == IF c \in UpperLetters THEN LowerOf[c] ELSE c
ToUpper(c) == IF c \in LowerLetters THEN UpperOf[c] ELSE c
\* str.lower(), str.upper()
lower(s) == [i \in 1..Len(s) |-> ToLower(s[i])]
upper(s) == [i \in 1..Len(s) |-> ToUpper(s[i])]

DigitVal(c) == (CHOOSE i \in 1..10 : DigitSeq[i] = c) - 1
DigitChar(n) == DigitSeq[n + 1]

Min(a, b) == IF a <= b THEN a ELSE b
Max(a, b) == IF a >= b THEN a ELSE b

\* s[a:b] of Python with 1-based a (inclusive) and b (exclusive)
Slice(s, a, b) == SubSeq(s, a, b - 1)

\* the first index >= i of s that holds no character of set (Len(s)+1: none)
RunEnd(s, i, set) ==
  CHOOSE j \in i..(Len(s) + 1) :
    /\ j = Len(s) + 1 \/ s[j] \notin set
    /\ \A k \in i..(j - 1) : s[k] \in set
\* the last index <= i of s that holds no character of set (0: none)
RunStart(s, i, set) ==
  CHOOSE j \in 0..i :
    /\ j = 0 \/ s[j] \notin set
    /\ \A k \in (j + 1)..i : s[k] \in set

\* str.strip()
strip(s) ==
  LET a == RunEnd(s, 1, Space)
      b == RunStart(s, Len(s), Space)
  IN IF a > b THEN <<>> ELSE SubSeq(s, a, b)

\* str.split(): the maximal runs of non-white-space characters of s
WordStarts(s) ==
  SelectSeq([i \in 1..Len(s) |-> i],
            LAMBDA i : s[i] \notin Space /\ (i = 1 \/ s[i - 1] \in Space))
WordsAt(s, starts) ==
  [k \in 1..Len(starts) |->
     SubSeq(s, starts[k], RunEnd(s, starts[k], AnyChar \ Space) - 1)]
split(s) == WordsAt(s, WordStarts(s))

\* ' '.join(words)
RECURSIVE JoinRange(_, _, _, _)
JoinRange(words, sep, lo, hi) ==
  IF lo > hi THEN <<>>
  ELSE IF lo = hi THEN words[lo]
  ELSE LET mid == (lo + hi) \div 2
       IN JoinRange(words, sep, lo, mid) \o sep \o JoinRange(words, sep, mid + 1, hi)
join(sep, words) == JoinRange(words, sep, 1, Len(words))

\* needle in haystack, for str operands
Contains(hay, needle) ==
  \E i \in 1..(Len(hay) - Len(needle) + 1) :
    \A j \in 1..Len(needle) : hay[i + j - 1] = needle[j]

\* "x if x else alt" for a str x
IfEmpty(x, alt) == IF x # <<>> THEN x ELSE alt

\* the concatenation of lists[lo], ..., lists[hi], taken by halves: the order
\* is that of a loop that extends one list, the recursion stays shallow
RECURSIVE ConcatRange(_, _, _)
ConcatRange(lists, lo, hi) ==
  IF lo > hi THEN <<>>
  ELSE IF lo = hi THEN lists[lo]
  ELSE ConcatRange(lists, lo, (lo + hi) \div 2)
         \o ConcatRange(lists, ((lo + hi) \div 2) + 1, hi)
\* the concatenation of the lists of a list
Flatten(lists) == ConcatRange(lists, 1, Len(lists))

\* the first of the strings of a list that is not empty (<<>>: none): what a
\* loop returns that returns its first result
NonEmpty(x) == x # <<>>
FirstNonEmpty(lists) == Head(SelectSeq(lists, NonEmpty) \o << <<>> >>)

\* x in list
InList(x, list) == \E i \in 1..Len(list) : list[i] = x

\* str.isdigit()
isdigit(s) == Len(s) > 0 /\ \A i \in 1..Len(s) : s[i] \in Digits
\* str.isupper(): no lower-case letter and at least one upper-case letter
isupper(s) == /\ \A i \in 1..Len(s) : s[i] \notin LowerLetters
              /\ \E i \in 1..Len(s) : s[i] \in UpperLetters
\* str.istitle(): an upper-case letter only after an uncased character, a
\* lower-case letter only after a cased one, and at least one cased character
istitle(s) ==
  /\ \E i \in 1..Len(s) : s[i] \in Letters
  /\ \A i \in 1..Len(s) :
       LET prevCased == i > 1 /\ s[i - 1] \in Letters
       IN /\ s[i] \in UpperLetters => ~prevCased
          /\ s[i] \in LowerLetters => prevCased

(***************************************************************************)
(* The re module: a backtracking matcher.  A pattern is a sequence of      *)
(* atoms, matched left to right; the atoms still to match are the         *)
(* continuation, so that a quantifier gives characters back exactly as    *)
(* Python's matcher does.                                                 *)
(***************************************************************************)
\* set{lo,hi}, greedy; hi < 0 is "no upper limit"
Cls(set, lo, hi) == [k |-> "cls", set |-> set, lo |-> lo, hi |-> hi, lazy |-> FALSE]
\* set{lo,hi}?, lazy
ClsLazy(set, lo, hi) == [k |-> "cls", set |-> set, lo |-> lo, hi |-> hi, lazy |-> TRUE]
One(set) == Cls(set, 1, 1)
Opt(set) == Cls(set, 0, 1)
Star(set) == Cls(set, 0, 0 - 1)
Plus(set) == Cls(set, 1, 0 - 1)
\* a literal, case-sensitive and under re.IGNORECASE (a pattern of one atom)
Lit(str) == <<[k |-> "lit", str |-> str, ci |-> FALSE]>>
LitI(str) == <<[k |-> "lit", str |-> str, ci |-> TRUE]>>
\* (?:a|b|...): opts is a sequence of patterns
Alt(opts) == [k |-> "alt", opts |-> opts]
\* (?:sub){lo,hi}, greedy
Rep(sub, lo, hi) == [k |-> "rep", sub |-> sub, lo |-> lo, hi |-> hi]
\* \b, and the two parentheses of the capture group
WordB == [k |-> "b"]
\* $: the end of the string, or the line break that ends the string
Eos == [k |-> "eos"]
Open == [k |-> "open"]
Close == [k |-> "close"]
\* a class under re.IGNORECASE
CaseI(set) == set \cup {ToLower(c) : c \in set} \cup {ToUpper(c) : c \in set}

NoMatch == [start |-> 0, end |-> 0 - 1, gs |-> 0, ge |-> 0]

\* \b before position i
Boundary(s, i) ==
  LET before == i > 1 /\ s[i - 1] \in WordChars
      after == i <= Len(s) /\ s[i] \in WordChars
  IN before # after

\* the number of characters of set from position i on, at most hi (if hi >= 0)
RunTop(s, i, hi) == IF hi >= 0 THEN Min(Len(s) + 1, i + hi) ELSE Len(s) + 1
RunLen(s, i, set, hi) ==
  (CHOOSE j \in i..RunTop(s, i, hi) :
     /\ j = RunTop(s, i, hi) \/ s[j] \notin set
     /\ \A k \in i..(j - 1) : s[k] \in set) - i

\* the literal atom a is at position i of s
LitAt(s, a, i) ==
  /\ i + Len(a.str) - 1 <= Len(s)
  /\ \A j \in 1..Len(a.str) :
       IF a.ci THEN ToLower(s[i + j - 1]) = ToLower(a.str[j])
       ELSE s[i + j - 1] = a.str[j]

\* the pattern that (?:sub){lo,hi} stands for after one more sub
OneMore(a, rest) ==
  a.sub \o <<Rep(a.sub, Max(a.lo - 1, 0), IF a.hi > 0 THEN a.hi - 1 ELSE a.hi)>> \o rest
\* the c-th count that the matcher tries for the quantified class a where run
\* characters of the class stand: run, run-1, ... if greedy, lo, lo+1, ... if lazy
NthCount(a, run, c) == IF a.lazy THEN a.lo + (c - 1) ELSE run - (c - 1)
\* a match, as opposed to NoMatch
Succeeded(r) == r.end >= 0

\* the match of the atoms todo at position i that Python's matcher finds first:
\* its end (the position after it) and the capture group's span, or a record
\* with a negative end.  Where the matcher has a choice (the count of a
\* quantifier, the alternative of an alternation) it tries the choices in
\* its order and keeps the first with which the rest of the pattern matches:
\* the choices are listed in that order and the first success is taken.
RECURSIVE Match(_, _, _)
Match(s, todo, i) ==
  CASE todo = <<>> -> [start |-> 0, end |-> i, gs |-> 0, ge |-> 0]
    [] todo[1].k = "cls" /\ RunLen(s, i, todo[1].set, todo[1].hi) < todo[1].lo -> NoMatch
    [] todo[1].k = "cls" /\ RunLen(s, i, todo[1].set, todo[1].hi) = todo[1].lo ->
         Match(s, Tail(todo), i + todo[1].lo)
    [] todo[1].k = "cls" ->
         Head(SelectSeq([c \in 1..(RunLen(s, i, todo[1].set, todo[1].hi) - todo[1].lo + 1) |->
                           Match(s, Tail(todo),
                                 i + NthCount(todo[1], RunLen(s, i, todo[1].set, todo[1].hi), c))],
                        Succeeded) \o <<NoMatch>>)
    [] todo[1].k = "lit" ->
         IF LitAt(s, todo[1], i) THEN Match(s, Tail(todo), i + Len(todo[1].str))
         ELSE NoMatch
    [] todo[1].k = "b" -> IF Boundary(s, i) THEN Match(s, Tail(todo), i) ELSE NoMatch
    [] todo[1].k = "open" -> [Match(s, Tail(todo), i) EXCEPT !.gs = i]
    [] todo[1].k = "close" -> [Match(s, Tail(todo), i) EXCEPT !.ge = i]
    [] todo[1].k = "eos" ->
         IF i = Len(s) + 1 \/ (i = Len(s) /\ s[i] = "\n")
         THEN Match(s, Tail(todo), i) ELSE NoMatch
    [] todo[1].k = "alt" ->
         Head(SelectSeq([j \in 1..Len(todo[1].opts) |->
                           Match(s, todo[1].opts[j] \o Tail(todo), i)],
                        Succeeded) \o <<NoMatch>>)
    [] todo[1].k = "rep" /\ todo[1].hi = 0 -> Match(s, Tail(todo), i)
    [] todo[1].k = "rep" /\ todo[1].lo > 0 -> Match(s, OneMore(todo[1], Tail(todo)), i)
    [] todo[1].k = "rep" ->
         Head(SelectSeq(<<Match(s, OneMore(todo[1], Tail(todo)), i),
                          Match(s, Tail(todo), i)>>,
                        Succeeded) \o <<NoMatch>>)
    [] OTHER -> NoMatch

\* the match objects of pat in s, one for each position at which pat matches,
\* from left to right
Hits(s, pat) ==
  SelectSeq([j \in 1..(Len(s) + 1) |-> [Match(s, pat, j) EXCEPT !.start = j]],
            Succeeded)
\* re.search(pat, s): the leftmost match, or one whose end is negative
search(pat, s) == Head(Hits(s, pat) \o <<NoMatch>>)

\* re.finditer(pat, s): the non-overlapping matches of a list of matches, left
\* to right (no pattern of the source matches the empty string)
RECURSIVE NonOverlapping(_)
NonOverlapping(hits) ==
  IF hits = <<>> THEN <<>>
  ELSE <<hits[1]>>
         \o NonOverlapping(SelectSeq(hits, LAMBDA m : m.start >= Max(hits[1].end,
                                                                   hits[1].start + 1)))
finditer(pat, s) == NonOverlapping(Hits(s, pat))

\* match.group(1) if the pattern has a group, match.group(0) otherwise
group1(s, m) == IF m.gs > 0 THEN Slice(s, m.gs, m.ge) ELSE Slice(s, m.start, m.end)
group0(s, m) == Slice(s, m.start, m.end)
\* re.findall(pat, s) for a pattern without a group
Groups0(s, ms) == [j \in 1..Len(ms) |-> group0(s, ms[j])]
findall(pat, s) == Groups0(s, finditer(pat, s))

(***************************************************************************)
(* CurrencyExtractor (src/extractors/currency_extractor.py).              *)
(*                                                                         *)
(* A float is kept as an exact decimal: ip, the digits before the point   *)
(* without leading zeros, and fp, the digits after it without trailing    *)
(* zeros.  A double agrees with it on every amount of at most 15          *)
(* significant digits, which is what the documents of this model hold.    *)
(***************************************************************************)
\* ([0-9,]+\.?[0-9]*)
NUM == <<Open, Plus(Digits \cup {","}), Opt({"."}), Star(Digits), Close>>
\* [$...]
SYM == One(CurrencySymbols)
IsoCodes == <<LitI(<<"U","S","D">>), LitI(<<"E","U","R">>), LitI(<<"G","B","P">>),
              LitI(<<"J","P","Y">>), LitI(<<"I","N","R">>), LitI(<<"C","A","D">>),
              LitI(<<"A","U","D">>)>>
AmountWordsBefore ==
  <<LitI(<<"t","o","t","a","l">>), LitI(<<"a","m","o","u","n","t">>),
    LitI(<<"s","u","m">>), LitI(<<"d","u","e">>),
    LitI(<<"b","a","l","a","n","c","e">>), LitI(<<"p","a","y">>),
    LitI(<<"p","r","i","c","e">>), LitI(<<"c","o","s","t">>)>>
AmountWordsAfter ==
  <<LitI(<<"t","o","t","a","l">>), LitI(<<"d","u","e">>),
    LitI(<<"b","a","l","a","n","c","e">>)>>
\* self.currency_patterns, in the order of the list
currency_patterns ==
  << <<SYM, Star(Space)>> \o NUM,
     NUM \o <<Star(Space), SYM>>,
     NUM \o <<Star(Space), Alt(IsoCodes), WordB>>,
     <<Alt(IsoCodes), Star(Space)>> \o NUM,
     <<Alt(AmountWordsBefore), Star({":"} \cup Space), Opt({"$"}), Star(Space)>> \o NUM,
     NUM \o <<Star(Space), Alt(AmountWordsAfter)>> >>
\* self.total_keywords, in the order of the list
total_keywords ==
  << <<"t","o","t","a","l">>,
     <<"g","r","a","n","d"," ","t","o","t","a","l">>,
     <<"a","m","o","u","n","t"," ","d","u","e">>,
     <<"b","a","l","a","n","c","e"," ","d","u","e">>,
     <<"f","i","n","a","l"," ","a","m","o","u","n","t">>,
     <<"t","o","t","a","l"," ","a","m","o","u","n","t">>,
     <<"a","m","o","u","n","t"," ","o","w","e","d">>,
     <<"t","o","t","a","l"," ","d","u","e">>,
     <<"p","a","y">>,
     <<"p","a","y","m","e","n","t">>,
     <<"s","u","m">>,
     <<"b","a","l","a","n","c","e">>,
     <<"i","n","v","o","i","c","e"," ","t","o","t","a","l">>,
     <<"b","i","l","l"," ","t","o","t","a","l">> >>

StripLeadingZeros(d) == SubSeq(d, RunEnd(d, 1, {"0"}), Len(d))
StripTrailingZeros(d) == SubSeq(d, 1, RunStart(d, Len(d), {"0"}))
PadRight(d, n) == d \o [i \in 1..(n - Len(d)) |-> "0"]
Remove(s, set) == SelectSeq(s, LAMBDA c : c \notin set)
Count(s, c) == Cardinality({i \in 1..Len(s) : s[i] = c})
IndexOf(s, c) == CHOOSE i \in 1..Len(s) : s[i] = c /\ \A j \in 1..(i - 1) : s[j] # c

\* float(str): ok is FALSE where Python raises ValueError
float(str) ==
  IF Count(str, ".") > 1 \/ ~(\E i \in 1..Len(str) : str[i] \in Digits)
     \/ \E i \in 1..Len(str) : str[i] \notin Digits \cup {"."}
  THEN [ok |-> FALSE, ip |-> <<>>, fp |-> <<>>]
  ELSE LET dot == IF Count(str, ".") = 1 THEN IndexOf(str, ".") ELSE Len(str) + 1
       IN [ok |-> TRUE,
           ip |-> StripLeadingZeros(SubSeq(str, 1, dot - 1)),
           fp |-> StripTrailingZeros(SubSeq(str, dot + 1, Len(str)))]

\* a < b for two digit strings of the same length
LexLess(a, b) ==
  \E i \in 1..Len(a) : /\ DigitVal(a[i]) < DigitVal(b[i])
                       /\ \A j \in 1..(i - 1) : a[j] = b[j]
\* x < y and x <= y for two floats
FloatLess(x, y) ==
  \/ Len(x.ip) < Len(y.ip)
  \/ /\ Len(x.ip) = Len(y.ip)
     /\ LET n == Max(Len(x.fp), Len(y.fp))
        IN LexLess(x.ip \o PadRight(x.fp, n), y.ip \o PadRight(y.fp, n))
FloatLeq(x, y) == ~FloatLess(y, x)

\* _amount_to_float: 0.0 for the empty string, else float() of the string
\* without currency symbols and commas
amount_to_float(amount_str) ==
  IF amount_str = <<>> THEN [ok |-> TRUE, ip |-> <<>>, fp |-> <<>>]
  ELSE float(Remove(Remove(amount_str, CurrencySymbols), {","}))

\* _clean_amount: None is the empty string (the callers test only its truth)
clean_amount(amount_str) ==
  IF amount_str = <<>> THEN <<>>
  ELSE SelectSeq(strip(Remove(amount_str, CurrencySymbols)),
                 LAMBDA c : c \in Digits \cup {",", "."})

\* the bounds of the range test of _is_valid_amount, as Python reads them
MinAmount == float(<<"0",".","0","1">>)
MaxAmount == float(<<"9","9","9","9","9","9","9","9","9",".","9","9">>)
\* the range test as it would be with both limits excluded
InRangeExclusive(value) == FloatLess(MinAmount, value) /\ FloatLess(value, MaxAmount)
\* the range test of _is_valid_amount
InRange(value) == FloatLeq(MinAmount, value) /\ FloatLeq(value, MaxAmount)

\* "value = float(amount_str)" and the range test: False on ValueError
InRangeFloat(value) == value.ok /\ InRange(value)

\* _is_valid_amount
is_valid_amount(amount_str) ==
  /\ amount_str # <<>>
  /\ \E i \in 1..Len(amount_str) : amount_str[i] \in Digits
  /\ Count(amount_str, ".") <= 1
  /\ Count(amount_str, ".") = 1 =>
       Len(amount_str) - IndexOf(amount_str, ".") <= 2
  /\ InRangeFloat(amount_to_float(amount_str))

\* d + 1 for a digit string d
RECURSIVE AddOne(_)
AddOne(d) ==
  IF d = <<>> THEN <<"1">>
  ELSE IF d[Len(d)] = "9" THEN AddOne(SubSeq(d, 1, Len(d) - 1)) \o <<"0">>
  ELSE SubSeq(d, 1, Len(d) - 1) \o <<DigitChar(DigitVal(d[Len(d)]) + 1)>>
\* the thousands separators of the format specifier ","
RECURSIVE Group3(_)
Group3(d) ==
  IF Len(d) <= 3 THEN d
  ELSE Group3(SubSeq(d, 1, Len(d) - 3)) \o <<",">> \o SubSeq(d, Len(d) - 2, Len(d))
\* f"{value:,.2f}": the value rounded to hundredths (a tie, which no document
\* of this model holds, to the even hundredth)
Format2f(value) ==
  LET two == PadRight(SubSeq(value.fp, 1, Min(2, Len(value.fp))), 2)
      rem == SubSeq(value.fp, 3, Len(value.fp))
      up == /\ rem # <<>>
            /\ \/ DigitVal(rem[1]) > 5
               \/ DigitVal(rem[1]) = 5 /\ Len(rem) > 1
               \/ DigitVal(rem[1]) = 5 /\ Len(rem) = 1 /\ DigitVal(two[2]) % 2 = 1
      cents == IF up THEN AddOne(value.ip \o two) ELSE value.ip \o two
      whole == StripLeadingZeros(SubSeq(cents, 1, Len(cents) - 2))
  IN Group3(IF whole = <<>> THEN <<"0">> ELSE whole)
       \o <<".">> \o SubSeq(cents, Len(cents) - 1, Len(cents))

\* _format_amount
FormatFloat(amount_str, value) ==
  IF value.ok THEN <<"$">> \o Format2f(value) ELSE <<"$">> \o amount_str
format_amount(amount_str) == FormatFloat(amount_str, amount_to_float(amount_str))

\* the strings match.group(1) of every match of every pattern, in the order
\* in which the two loops of _find_all_amounts visit them
Groups1(s, ms) == [j \in 1..Len(ms) |-> group1(s, ms[j])]
CapturesOf(s, patterns) ==
  Flatten([k \in 1..Len(patterns) |-> Groups1(s, finditer(patterns[k], s))])

\* the body of the loops as it would be without "not in amounts"
AddFormattedAgain(amounts, formatted_amount) == Append(amounts, formatted_amount)
\* the body of the loops of _find_all_amounts for one matched string
AddFormatted(amounts, formatted_amount) ==
  IF InList(formatted_amount, amounts) THEN amounts
  ELSE Append(amounts, formatted_amount)
AddCleaned(amounts, cleaned_amount) ==
  IF cleaned_amount # <<>> /\ is_valid_amount(cleaned_amount)
  THEN AddFormatted(amounts, format_amount(cleaned_amount))
  ELSE amounts
AddAmount(amounts, amount_str) == AddCleaned(amounts, clean_amount(amount_str))
\* the list amounts after the first k matched strings
RECURSIVE CollectAmounts(_, _)
CollectAmounts(caps, k) ==
  IF k = 0 THEN <<>> ELSE AddAmount(CollectAmounts(caps, k - 1), caps[k])
AllCollected(caps) == CollectAmounts(caps, Len(caps))

\* list.sort(key=_amount_to_float, reverse=True): stable, descending
InsertAfter(sorted, x, n) ==
  SubSeq(sorted, 1, n) \o <<x>> \o SubSeq(sorted, n + 1, Len(sorted))
InsertDesc(sorted, x) ==
  InsertAfter(sorted, x,
    Cardinality({i \in 1..Len(sorted) :
                   FloatLeq(amount_to_float(x), amount_to_float(sorted[i]))}))
\* the first k elements of list, sorted
RECURSIVE SortDesc(_, _)
SortDesc(list, k) ==
  IF k = 0 THEN <<>> ELSE InsertDesc(SortDesc(list, k - 1), list[k])
Sorted(list) == SortDesc(list, Len(list))

\* _find_all_amounts
find_all_amounts(txt) ==
  Sorted(AllCollected(CapturesOf(lower(txt), currency_patterns)))

\* keyword followed by amount, and amount followed by keyword
KeywordThenAmount(keyword) ==
  Lit(keyword) \o <<Star({":"} \cup Space), Opt({"$"}), Star(Space)>> \o NUM
AmountThenKeyword(keyword) == NUM \o <<Star(Space)>> \o Lit(keyword)

\* one of the two inner loops of Method 1: the first match whose formatted
\* amount is in all_amounts (<<>>: none)
RECURSIVE FirstListed(_, _, _, _), ListedOr(_, _, _, _, _)
FirstListed(s, ms, k, all_amounts) ==
  IF k > Len(ms) THEN <<>>
  ELSE ListedOr(s, ms, k, all_amounts, clean_amount(group1(s, ms[k])))
\* the body of the inner loop for match k with its cleaned amount
ListedOr(s, ms, k, all_amounts, cleaned) ==
  IF cleaned # <<>> /\ InList(format_amount(cleaned), all_amounts)
  THEN format_amount(cleaned)
  ELSE FirstListed(s, ms, k + 1, all_amounts)

\* the body of the loop as it would be without its second search
AtKeywordAfterOnly(text_lower, all_amounts, keyword) ==
  FirstListed(text_lower, finditer(KeywordThenAmount(keyword), text_lower),
              1, all_amounts)
\* the body of the loop of Method 1 for one keyword: pattern1, then pattern2
AtKeyword(text_lower, all_amounts, keyword) ==
  IfEmpty(FirstListed(text_lower,
                      finditer(KeywordThenAmount(keyword), text_lower),
                      1, all_amounts),
          FirstListed(text_lower,
                      finditer(AmountThenKeyword(keyword), text_lower),
                      1, all_amounts))
\* Method 1 of _find_total_amount (<<>>: no keyword hit)
NearKeyword(text_lower, all_amounts) ==
  FirstNonEmpty([k \in 1..Len(total_keywords) |->
                   AtKeyword(text_lower, all_amounts, total_keywords[k])])

\* _find_total_amount: Methods 2 and 3 both return the largest amount
find_total_amount(txt, all_amounts) ==
  IF all_amounts = <<>> THEN <<>>
  ELSE IfEmpty(NearKeyword(lower(txt), all_amounts), all_amounts[1])

\* ', '.join(list)
JoinComma(list) == join(<<",", " ">>, list)

\* extract_amounts; all_amounts and others are kept beside the two fields of
\* the returned dict
AmountsDict(all_amounts, total_amount, other_amounts) ==
  [total |-> total_amount,
   other_amounts |-> JoinComma(other_amounts),
   all_amounts |-> all_amounts,
   others |-> other_amounts]
AmountsWithTotal(all_amounts, total_amount) ==
  AmountsDict(all_amounts, total_amount,
              SelectSeq(all_amounts, LAMBDA amt : amt # total_amount))
AmountsOf(txt, all_amounts) ==
  AmountsWithTotal(all_amounts, find_total_amount(txt, all_amounts))
extract_amounts(txt) == AmountsOf(txt, find_all_amounts(txt))

(***************************************************************************)
(* InvoiceExtractor (src/extractors/invoice_extractor.py).                *)
(***************************************************************************)
\* [A-Z0-9\-] under re.IGNORECASE, and ([A-Z0-9\-]{3,20})
InvChar == CaseI(UpperLetters \cup Digits \cup {"-"})
InvGroup == <<Open, Cls(InvChar, 3, 20), Close>>
\* \s*#?\s*:?\s*
InvSep == <<Star(Space), Opt({"#"}), Star(Space), Opt({":"}), Star(Space)>>
\* (?:number|no|num)
NumberWords == Alt(<<LitI(<<"n","u","m","b","e","r">>), LitI(<<"n","o">>),
                     LitI(<<"n","u","m">>)>>)
KwInvoice == LitI(<<"i","n","v","o","i","c","e">>)
KwInv == LitI(<<"i","n","v">>)
KwBill == LitI(<<"b","i","l","l">>)
\* self.invoice_patterns, in the order of the list
invoice_patterns ==
  << KwInvoice \o InvSep \o InvGroup,
     KwInv \o InvSep \o InvGroup,
     KwInvoice \o <<Star(Space), NumberWords>> \o InvSep \o InvGroup,
     KwInv \o <<Star(Space), NumberWords>> \o InvSep \o InvGroup,
     KwInvoice \o <<Star(Space), One({":", "#"}), Star(Space)>> \o InvGroup,
     KwInv \o <<Star(Space), One({":", "#"}), Star(Space)>> \o InvGroup,
     <<Alt(<<KwInvoice, KwInv>>), ClsLazy(Dot, 0, 0 - 1), Open,
       Cls(Letters, 1, 3), Cls(Digits, 3, 10), Close>>,
     <<Alt(<<KwInvoice, KwInv>>), ClsLazy(Dot, 0, 0 - 1), Open,
       Cls(Digits, 3, 10), Cls(Letters, 0, 3), Close>>,
     KwBill \o InvSep \o InvGroup,
     KwBill \o <<Star(Space), NumberWords>> \o InvSep \o InvGroup >>
\* the list patterns of _extract_from_line
line_patterns ==
  << KwInvoice \o InvSep \o InvGroup,
     KwInv \o InvSep \o InvGroup,
     KwBill \o InvSep \o InvGroup >>
\* \b[A-Z0-9\-]{3,20}\b under re.IGNORECASE
standalone_pattern == <<WordB, Cls(InvChar, 3, 20), WordB>>
\* ^[A-Z0-9\-_]{3,20}$ under re.IGNORECASE
shape_pattern == <<Cls(InvChar \cup {"_"}, 3, 20), Eos>>
\* the list false_positives of _is_valid_invoice_number
false_positives ==
  << <<"i","n","v","o","i","c","e">>, <<"n","u","m","b","e","r">>,
     <<"t","o","t","a","l">>, <<"a","m","o","u","n","t">>, <<"d","a","t","e">>,
     <<"d","u","e">>, <<"p","a","i","d">>, <<"b","a","l","a","n","c","e">>,
     <<"t","a","x">>, <<"s","h","i","p","p","i","n","g">>,
     <<"s","u","b","t","o","t","a","l">> >>
\* the least length of a candidate, and of a purely numeric one
MinInvoiceLen == 3
MinNumericLen == 4

\* _is_valid_invoice_number as it would be with "return True" for every
\* candidate of digits
is_valid_any_numeric(candidate) ==
  IF candidate = <<>> \/ Len(candidate) < MinInvoiceLen THEN FALSE
  ELSE IF ~(\E i \in 1..Len(candidate) : candidate[i] \in Digits) THEN FALSE
  ELSE IF Match(candidate, shape_pattern, 1).end < 0 THEN FALSE
  ELSE IF InList(lower(candidate), false_positives) THEN FALSE
  ELSE IF \E i \in 1..Len(candidate) : candidate[i] \in Letters THEN TRUE
  ELSE isdigit(candidate)

\* _is_valid_invoice_number
is_valid_invoice_number(candidate) ==
  IF candidate = <<>> \/ Len(candidate) < MinInvoiceLen THEN FALSE
  ELSE LET cleaned == Remove(candidate, {"-", "_", " "})
           has_letter == \E i \in 1..Len(candidate) : candidate[i] \in Letters
           has_digit == \E i \in 1..Len(candidate) : candidate[i] \in Digits
       IN IF ~(\E i \in 1..Len(cleaned) : cleaned[i] \in Digits) THEN FALSE
          ELSE IF Match(candidate, shape_pattern, 1).end < 0 THEN FALSE
          ELSE IF InList(lower(candidate), false_positives) THEN FALSE
          ELSE IF has_letter /\ has_digit THEN TRUE
          ELSE IF isdigit(candidate) /\ Len(candidate) >= MinNumericLen THEN TRUE
          ELSE FALSE

\* the first loop of _extract_from_line, from pattern k on (<<>>: nothing)
RECURSIVE FromLinePatterns(_, _), FromLineMatch(_, _, _)
FromLinePatterns(line_lower, k) ==
  IF k > Len(line_patterns) THEN <<>>
  ELSE FromLineMatch(line_lower, k, search(line_patterns[k], line_lower))
\* the body of that loop for pattern k and its match m
FromLineMatch(line_lower, k, m) ==
  IF m.end >= 0 /\ is_valid_invoice_number(group1(line_lower, m))
  THEN upper(group1(line_lower, m))
  ELSE FromLinePatterns(line_lower, k + 1)

\* the first valid string of a list, upper-cased (<<>>: none)
RECURSIVE FirstValid(_, _)
FirstValid(cands, k) ==
  IF k > Len(cands) THEN <<>>
  ELSE IF is_valid_invoice_number(cands[k]) THEN upper(cands[k])
  ELSE FirstValid(cands, k + 1)

\* _extract_from_line
extract_from_line(line) ==
  IfEmpty(FromLinePatterns(lower(line), 1),
          IF Contains(lower(line), <<"i","n","v","o","i","c","e">>)
          THEN FirstValid(findall(standalone_pattern, line), 1)
          ELSE <<>>)

\* str.split('\n')
RECURSIVE SplitLines(_, _), LineTo(_, _, _)
SplitLines(s, i) == LineTo(s, i, RunEnd(s, i, AnyChar \ {"\n"}))
\* the line from i to the line break at e, and the lines after it
LineTo(s, i, e) ==
  IF e > Len(s) THEN <<SubSeq(s, i, Len(s))>>
  ELSE <<SubSeq(s, i, e - 1)>> \o SplitLines(s, e + 1)

\* any(keyword in line_lower for keyword in ['invoice', 'inv', 'bill'])
HasInvoiceKeyword(line_lower) ==
  \/ Contains(line_lower, <<"i","n","v","o","i","c","e">>)
  \/ Contains(line_lower, <<"i","n","v">>)
  \/ Contains(line_lower, <<"b","i","l","l">>)

\* the body of the first loop of extract_invoice_number for one line
FromLine(line) ==
  IF HasInvoiceKeyword(strip(lower(line))) THEN extract_from_line(line) ELSE <<>>
\* the first loop of extract_invoice_number
FromLines(text_lines) ==
  FirstNonEmpty([k \in 1..Len(text_lines) |-> FromLine(text_lines[k])])

\* the second loop of extract_invoice_number
FromFullText(text_lower) ==
  FirstNonEmpty([k \in 1..Len(invoice_patterns) |->
                   FirstValid(Groups1(text_lower,
                                      finditer(invoice_patterns[k], text_lower)), 1)])

\* extract_invoice_number
extract_invoice_number(txt) ==
  IfEmpty(FromLines(SplitLines(txt, 1)), FromFullText(lower(txt)))

(***************************************************************************)
(* DateExtractor (src/extractors/date_extractor.py).                      *)
(***************************************************************************)
\* [\/\-\.]
DateSep == {"/", "-", "."}
\* [0-9]{1,2}[\/\-\.][0-9]{1,2}[\/\-\.][0-9]{2,4}
LabelledDate == <<Cls(Digits, 1, 2), One(DateSep), Cls(Digits, 1, 2), One(DateSep),
                  Cls(Digits, 2, 4)>>
\* keyword[:\s]*(date)
Labelled(keyword) == keyword \o <<Star({":"} \cup Space), Open>> \o LabelledDate \o <<Close>>
\* self.date_patterns, in the order of the dict
date_patterns ==
  << [label |-> "invoice", patterns |->
        <<Labelled(LitI(<<"i","n","v","o","i","c","e">>) \o <<Star(Space)>> \o LitI(<<"d","a","t","e">>)),
          Labelled(LitI(<<"i","n","v">>) \o <<Star(Space)>> \o LitI(<<"d","a","t","e">>)),
          Labelled(LitI(<<"i","n","v","o","i","c","e">>))>>],
     [label |-> "due", patterns |->
        <<Labelled(LitI(<<"d","u","e">>) \o <<Star(Space)>> \o LitI(<<"d","a","t","e">>)),
          Labelled(LitI(<<"p","a","y","m","e","n","t">>) \o <<Star(Space)>> \o LitI(<<"d","u","e">>)),
          Labelled(LitI(<<"d","u","e">>))>>],
     [label |-> "order", patterns |->
        <<Labelled(LitI(<<"o","r","d","e","r">>) \o <<Star(Space)>> \o LitI(<<"d","a","t","e">>)),
          Labelled(LitI(<<"p","o">>) \o <<Star(Space)>> \o LitI(<<"d","a","t","e">>)),
          Labelled(LitI(<<"p","u","r","c","h","a","s","e">>) \o <<Star(Space)>> \o LitI(<<"d","a","t","e">>))>>],
     [label |-> "ship", patterns |->
        <<Labelled(LitI(<<"s","h","i","p">>) \o <<Star(Space)>> \o LitI(<<"d","a","t","e">>)),
          Labelled(LitI(<<"s","h","i","p","p","i","n","g">>) \o <<Star(Space)>> \o LitI(<<"d","a","t","e">>)),
          Labelled(LitI(<<"s","h","i","p","p","e","d">>))>>] >>
\* (?:Jan|Feb|...|Dec)[a-z]* under re.IGNORECASE
MonthWord == <<Alt(<<LitI(<<"J","a","n">>),
           LitI(<<"F","e","b">>),
           LitI(<<"M","a","r">>),
           LitI(<<"A","p","r">>),
           LitI(<<"M","a","y">>),
           LitI(<<"J","u","n">>),
           LitI(<<"J","u","l">>),
           LitI(<<"A","u","g">>),
           LitI(<<"S","e","p">>),
           LitI(<<"O","c","t">>),
           LitI(<<"N","o","v">>),
           LitI(<<"D","e","c">>)>>),
               Star(Letters)>>
\* self.generic_patterns, in the order of the list
generic_patterns ==
  << <<Cls(Digits, 1, 2), One(DateSep), Cls(Digits, 1, 2), One(DateSep), Cls(Digits, 4, 4)>>,
     <<Cls(Digits, 4, 4), One(DateSep), Cls(Digits, 1, 2), One(DateSep), Cls(Digits, 1, 2)>>,
     <<Cls(Digits, 1, 2), One(DateSep), Cls(Digits, 1, 2), One(DateSep), Cls(Digits, 2, 2)>>,
     MonthWord \o <<Plus(Space), Cls(Digits, 1, 2), Opt({","}), Plus(Space), Cls(Digits, 4, 4)>>,
     <<Cls(Digits, 1, 2), Plus(Space)>> \o MonthWord \o <<Plus(Space), Cls(Digits, 4, 4)>> >>
\* the dict priority of _remove_duplicates and priority_order of _format_dates
priority(label) ==
  CASE label = "invoice" -> 1 [] label = "due" -> 2 [] label = "order" -> 3
    [] label = "ship" -> 4 [] OTHER -> 5
\* the year range of _parse_date
MinYear == 1900
MaxYear == 2100
\* the number of labelled dates that makes extract_dates skip the generic pass
EnoughDates == 3
\* the number of dates extract_dates returns
MaxDates == 3
\* context_length of _get_context_snippet
ContextLength == 50

\* the month names dateutil knows, January first
MonthNames ==
  << {<<"j","a","n">>, <<"j","a","n","u","a","r","y">>},
     {<<"f","e","b">>, <<"f","e","b","r","u","a","r","y">>},
     {<<"m","a","r">>, <<"m","a","r","c","h">>},
     {<<"a","p","r">>, <<"a","p","r","i","l">>},
     {<<"m","a","y">>},
     {<<"j","u","n">>, <<"j","u","n","e">>},
     {<<"j","u","l">>, <<"j","u","l","y">>},
     {<<"a","u","g">>, <<"a","u","g","u","s","t">>},
     {<<"s","e","p">>, <<"s","e","p","t">>, <<"s","e","p","t","e","m","b","e","r">>},
     {<<"o","c","t">>, <<"o","c","t","o","b","e","r">>},
     {<<"n","o","v">>, <<"n","o","v","e","m","b","e","r">>},
     {<<"d","e","c">>, <<"d","e","c","e","m","b","e","r">>} >>
\* the year of the day the program runs, from which dateutil takes the century
\* of a two-digit year
CurrentYear == 2026

RECURSIVE ToNat(_)
ToNat(d) == IF d = <<>> THEN 0 ELSE 10 * ToNat(SubSeq(d, 1, Len(d) - 1)) + DigitVal(d[Len(d)])
\* the decimal digits of n, at least width of them
RECURSIVE ToDigits(_, _)
ToDigits(n, width) ==
  IF n < 10 /\ width <= 1 THEN <<DigitChar(n)>>
  ELSE ToDigits(n \div 10, width - 1) \o <<DigitChar(n % 10)>>

\* the maximal runs of characters of set in s, from position i on
RECURSIVE Runs(_, _, _), RunFrom(_, _, _), RunTo(_, _, _, _)
Runs(s, set, i) == RunFrom(s, set, RunEnd(s, i, AnyChar \ set))
RunFrom(s, set, a) == IF a > Len(s) THEN <<>> ELSE RunTo(s, set, a, RunEnd(s, a, set))
RunTo(s, set, a, b) == <<SubSeq(s, a, b - 1)>> \o Runs(s, set, b)

IsLeap(y) == (y % 4 = 0 /\ y % 100 # 0) \/ y % 400 = 0
DaysInMonth(y, m) ==
  IF m = 2 THEN (IF IsLeap(y) THEN 29 ELSE 28)
  ELSE IF m \in {4, 6, 9, 11} THEN 30 ELSE 31
\* datetime(y, m, d) is a date
ValidDate(y, m, d) ==
  /\ y >= 1 /\ y <= 9999 /\ m >= 1 /\ m <= 12 /\ d >= 1 /\ d <= DaysInMonth(y, m)
\* parserinfo.convertyear of dateutil
convertyear(yy) ==
  LET y == yy + (CurrentYear \div 100) * 100
  IN IF y >= CurrentYear + 50 THEN y - 100
     ELSE IF y < CurrentYear - 50 THEN y + 100
     ELSE y
NoDate == [ok |-> FALSE, y |-> 0, m |-> 0, d |-> 0]
\* the year a number stands for: as written with more than two digits
YearOf(digits) == IF Len(digits) > 2 THEN ToNat(digits) ELSE convertyear(ToNat(digits))
\* dateutil's reading of three numbers a sep b sep c (_ymd.resolve_ymd with
\* dayfirst and yearfirst off): a number of more than two digits is the year
ResolveNumeric(a, b, c) ==
  LET long == {k \in 1..3 : Len(<<a, b, c>>[k]) > 2}
  IN IF Cardinality(long) > 1 THEN NoDate
     ELSE IF ToNat(a) > 31 \/ Len(a) > 2
     THEN [ok |-> TRUE, y |-> YearOf(a), m |-> ToNat(b), d |-> ToNat(c)]
     ELSE IF ToNat(a) > 12
     THEN [ok |-> TRUE, y |-> YearOf(c), m |-> ToNat(b), d |-> ToNat(a)]
     ELSE [ok |-> TRUE, y |-> YearOf(c), m |-> ToNat(a), d |-> ToNat(b)]
\* dateutil's reading of a month name with a day and a four-digit year
ResolveNamed(word, nums) ==
  LET ms == {k \in 1..12 : lower(word) \in MonthNames[k]}
      ys == {k \in 1..2 : Len(nums[k]) > 2}
  IN IF ms = {} \/ Cardinality(ys) # 1 THEN NoDate
     ELSE LET yi == CHOOSE k \in ys : TRUE
          IN [ok |-> TRUE, y |-> ToNat(nums[yi]), m |-> CHOOSE k \in ms : TRUE,
              d |-> ToNat(nums[3 - yi])]
\* dateutil's reading of the numbers, the words and the separators of a string
Resolve(nums, words, seps) ==
  IF Len(nums) = 3 /\ words = <<>> /\ Len(seps) = 2 /\ seps[1] = seps[2]
  THEN ResolveNumeric(nums[1], nums[2], nums[3])
  ELSE IF Len(nums) = 2 /\ Len(words) = 1 /\ seps = <<>>
  THEN ResolveNamed(words[1], nums)
  ELSE NoDate
\* datetime(...) of what the parser read: ValueError if it is no date
Dated(r) == IF r.ok /\ ValidDate(r.y, r.m, r.d) THEN r ELSE NoDate
\* dateutil.parser.parse(date_str, fuzzy=True) on the strings the patterns
\* match: three numbers with one separator, or a month name with a day and a
\* year; ok is FALSE where it raises ValueError
parse(date_str) ==
  Dated(Resolve(Runs(date_str, Digits, 1), Runs(date_str, Letters, 1),
                Remove(date_str, Digits \cup Letters \cup Space \cup {","})))

\* the year test of _parse_date
InYears(parsed) ==
  IF parsed.ok /\ MinYear <= parsed.y /\ parsed.y <= MaxYear THEN parsed ELSE NoDate
\* _parse_date: None is NoDate
parse_date(date_str) == InYears(parse(strip(date_str)))

\* datetime.strftime('%m/%d/%Y')
strftime(dt) == ToDigits(dt.m, 2) \o <<"/">> \o ToDigits(dt.d, 2) \o <<"/">> \o ToDigits(dt.y, 4)

\* _get_context_snippet for the match m
get_context_snippet(txt, m) ==
  LET snippet_start == Max(0, (m.start - 1) - ContextLength)
      snippet_end == Min(Len(txt), (m.end - 1) + ContextLength)
  IN join(<<" ">>, split(strip(SubSeq(txt, snippet_start + 1, snippet_end))))

\* "if parsed_date: dates.append({...})" for the match m
AppendParsed(dates, txt, m, date_str, parsed_date, label, confidence) ==
  IF parsed_date.ok
  THEN Append(dates, [raw_date |-> date_str,
                      formatted_date |-> strftime(parsed_date),
                      label |-> label,
                      snippet |-> get_context_snippet(txt, m),
                      confidence |-> confidence])
  ELSE dates
AppendDate(dates, txt, m, date_str, label, confidence) ==
  AppendParsed(dates, txt, m, date_str, parse_date(date_str), label, confidence)

\* the findings that the first loop of extract_dates appends for the matches
\* ms of one labelled pattern, from match j on
RECURSIVE LabelledMatches(_, _, _, _, _)
LabelledMatches(txt, text_lower, label, ms, j) ==
  IF j > Len(ms) THEN <<>>
  ELSE AppendDate(<<>>, txt, ms[j], group1(text_lower, ms[j]), label, "high")
         \o LabelledMatches(txt, text_lower, label, ms, j + 1)
\* the findings of the patterns of one label
LabelledPatterns(txt, text_lower, entry) ==
  Flatten([j \in 1..Len(entry.patterns) |->
             LabelledMatches(txt, text_lower, entry.label,
                             finditer(entry.patterns[j], text_lower), 1)])
\* the first loop of extract_dates: the findings of every label, in the order
\* of date_patterns
LabelledPass(txt, text_lower) ==
  Flatten([k \in 1..Len(date_patterns) |->
             LabelledPatterns(txt, text_lower, date_patterns[k])])

\* the body of the second loop of extract_dates for one match m
GenericMatch(txt, m, date_str, dates) ==
  IF \E i \in 1..Len(dates) : lower(dates[i].raw_date) = lower(date_str)
  THEN dates
  ELSE AppendDate(dates, txt, m, date_str, "unknown", "medium")
\* the matches ms of one generic pattern, from match j on
RECURSIVE GenericMatches(_, _, _, _)
GenericMatches(txt, ms, j, dates) ==
  IF j > Len(ms) THEN dates
  ELSE GenericMatches(txt, ms, j + 1,
                      GenericMatch(txt, ms[j], group0(txt, ms[j]), dates))
\* the second loop of extract_dates, from pattern k on
RECURSIVE GenericPass(_, _, _)
GenericPass(txt, k, dates) ==
  IF k > Len(generic_patterns) THEN dates
  ELSE GenericPass(txt, k + 1,
                   GenericMatches(txt, finditer(generic_patterns[k], txt), 1, dates))

\* sorted(dates, key=priority of the label): stable, ascending
SortByPriority(dates) ==
  LET at(p) == SelectSeq(dates, LAMBDA d : priority(d.label) = p)
  IN at(1) \o (at(2) \o (at(3) \o (at(4) \o at(5))))

\* the loop of _remove_duplicates as it would be if a later finding replaced
\* the one kept for its date
RECURSIVE KeepLast(_, _, _)
KeepLast(sorted_dates, k, unique_dates) ==
  IF k > Len(sorted_dates) THEN unique_dates
  ELSE KeepLast(sorted_dates, k + 1,
                Append(SelectSeq(unique_dates,
                                 LAMBDA d : d.formatted_date # sorted_dates[k].formatted_date),
                       sorted_dates[k]))

\* the loop of _remove_duplicates, from finding k on
RECURSIVE KeepFirst(_, _, _)
KeepFirst(sorted_dates, k, unique_dates) ==
  IF k > Len(sorted_dates) THEN unique_dates
  ELSE IF \E i \in 1..Len(unique_dates) :
            unique_dates[i].formatted_date = sorted_dates[k].formatted_date
  THEN KeepFirst(sorted_dates, k + 1, unique_dates)
  ELSE KeepFirst(sorted_dates, k + 1, Append(unique_dates, sorted_dates[k]))
\* _remove_duplicates
remove_duplicates(dates) == KeepFirst(SortByPriority(dates), 1, <<>>)

\* "if len(dates) < 3:" with the second loop
WithGeneric(txt, dates) ==
  IF Len(dates) < EnoughDates THEN GenericPass(txt, 1, dates) ELSE dates
\* the list dates of extract_dates before _remove_duplicates
candidate_dates(txt) == WithGeneric(txt, LabelledPass(txt, lower(txt)))

\* list[:n]
Take(list, n) == SubSeq(list, 1, Min(n, Len(list)))
\* extract_dates as it would be without "[:3]"
extract_dates_untruncated(txt) == remove_duplicates(candidate_dates(txt))
\* extract_dates
extract_dates(txt) == Take(remove_duplicates(candidate_dates(txt)), MaxDates)

(***************************************************************************)
(* VendorExtractor (src/extractors/vendor_extractor.py).                  *)
(***************************************************************************)
\* self.vendor_keywords
vendor_keywords ==
  << <<"v","e","n","d","o","r">>, <<"s","u","p","p","l","i","e","r">>,
     <<"c","o","m","p","a","n","y">>, <<"c","o","r","p">>,
     <<"c","o","r","p","o","r","a","t","i","o","n">>, <<"i","n","c">>,
     <<"i","n","c","o","r","p","o","r","a","t","e","d">>, <<"l","t","d">>,
     <<"l","i","m","i","t","e","d">>, <<"l","l","c">>, <<"l","l","p">>,
     <<"p","l","l","c">>, <<"c","o">>, <<"g","r","o","u","p">>,
     <<"e","n","t","e","r","p","r","i","s","e","s">>,
     <<"s","e","r","v","i","c","e","s">>,
     <<"s","o","l","u","t","i","o","n","s">>,
     <<"s","y","s","t","e","m","s">>,
     <<"t","e","c","h","n","o","l","o","g","i","e","s">>,
     <<"i","n","d","u","s","t","r","i","e","s">> >>
\* self.exclude_words
exclude_words ==
  << <<"i","n","v","o","i","c","e">>, <<"b","i","l","l">>,
     <<"r","e","c","e","i","p","t">>,
     <<"s","t","a","t","e","m","e","n","t">>, <<"t","o","t","a","l">>,
     <<"a","m","o","u","n","t">>, <<"p","a","y","m","e","n","t">>,
     <<"d","a","t","e">>, <<"n","u","m","b","e","r">>,
     <<"a","c","c","o","u","n","t">>, <<"c","u","s","t","o","m","e","r">>,
     <<"o","r","d","e","r">>, <<"p","u","r","c","h","a","s","e">>,
     <<"s","a","l","e">>, <<"t","a","x">>,
     <<"s","h","i","p","p","i","n","g">>,
     <<"d","e","l","i","v","e","r","y">>, <<"a","d","d","r","e","s","s">>,
     <<"p","h","o","n","e">>, <<"e","m","a","i","l">>,
     <<"w","e","b","s","i","t","e">>, <<"t","e","r","m","s">>,
     <<"c","o","n","d","i","t","i","o","n","s">>,
     <<"d","e","s","c","r","i","p","t","i","o","n">>,
     <<"q","u","a","n","t","i","t","y">>, <<"p","r","i","c","e">>,
     <<"s","u","b","t","o","t","a","l">>,
     <<"d","i","s","c","o","u","n","t">>, <<"b","a","l","a","n","c","e">>,
     <<"d","u","e">>, <<"p","a","i","d">>, <<"r","e","m","i","t">>,
     <<"b","i","l","l","i","n","g">>, <<"c","o","n","t","a","c","t">> >>
\* the list business_suffixes of _score_candidate
business_suffixes ==
  << <<"c","o","r","p">>, <<"c","o","r","p","o","r","a","t","i","o","n">>,
     <<"i","n","c">>, <<"i","n","c","o","r","p","o","r","a","t","e","d">>,
     <<"l","t","d">>, <<"l","i","m","i","t","e","d">>, <<"l","l","c">>,
     <<"l","l","p">>, <<"p","l","l","c">>, <<"c","o">>,
     <<"g","r","o","u","p">>,
     <<"e","n","t","e","r","p","r","i","s","e","s">> >>
\* (?i)\bkeyword\b.{0,100}
KeywordContext(keyword) == <<WordB>> \o LitI(keyword) \o <<WordB, Cls(Dot, 0, 100)>>
\* [A-Z][a-z]+ and \s+[A-Z][a-z]+
CapWord == <<One(UpperLetters), Plus(LowerLetters)>>
NextCapWord == <<Plus(Space)>> \o CapWord
\* \b[A-Z][a-z]+(?:\s+[A-Z][a-z]+)*\b
cap_words_pattern == <<WordB>> \o CapWord \o <<Rep(NextCapWord, 0, 0 - 1), WordB>>
\* \b[A-Z][a-z]+(?:\s+[A-Z][a-z]+){1,4}\b
title_case_pattern == <<WordB>> \o CapWord \o <<Rep(NextCapWord, 1, 4), WordB>>
\* \b[A-Z]{2,}(?:\s+[A-Z]{2,})*\b
all_caps_pattern ==
  <<WordB, Cls(UpperLetters, 2, 0 - 1),
    Rep(<<Plus(Space), Cls(UpperLetters, 2, 0 - 1)>>, 0, 0 - 1), WordB>>
\* ^[A-Z]{1,3}$
abbreviation_pattern == <<Cls(UpperLetters, 1, 3), Eos>>
\* the list suffix_patterns of _find_company_suffixes, under re.IGNORECASE
suffix_patterns ==
  << <<WordB, One(Letters), Plus(Letters \cup Space \cup {"&"}),
       Alt(<<LitI(<<"C","o","r","p">>),
            LitI(<<"C","o","r","p","o","r","a","t","i","o","n">>),
            LitI(<<"I","n","c">>),
            LitI(<<"I","n","c","o","r","p","o","r","a","t","e","d">>),
            LitI(<<"L","t","d">>),
            LitI(<<"L","i","m","i","t","e","d">>),
            LitI(<<"L","L","C">>),
            LitI(<<"L","L","P">>),
            LitI(<<"P","L","L","C">>),
            LitI(<<"C","o">>)>>),
       WordB>>,
     <<WordB, One(Letters), Plus(Letters \cup Space \cup {"&"}),
       Alt(<<LitI(<<"G","r","o","u","p">>),
            LitI(<<"E","n","t","e","r","p","r","i","s","e","s">>),
            LitI(<<"S","e","r","v","i","c","e","s">>),
            LitI(<<"S","o","l","u","t","i","o","n","s">>),
            LitI(<<"S","y","s","t","e","m","s">>),
            LitI(<<"T","e","c","h","n","o","l","o","g","i","e","s">>),
            LitI(<<"I","n","d","u","s","t","r","i","e","s">>)>>),
       WordB>> >>

\* any(word in s for word in words)
AnyIn(words, s) == \E k \in 1..Len(words) : Contains(s, words[k])

\* _find_near_keywords
CapWordsIn(contexts) ==
  Flatten([j \in 1..Len(contexts) |-> findall(cap_words_pattern, contexts[j])])
find_near_keywords(txt) ==
  Flatten([k \in 1..Len(vendor_keywords) |->
             CapWordsIn(findall(KeywordContext(vendor_keywords[k]), txt))])

\* _find_title_case_names
find_title_case_names(txt) ==
  SelectSeq(findall(title_case_pattern, txt),
            LAMBDA match : /\ ~AnyIn(exclude_words, lower(match))
                           /\ Len(split(match)) >= 2)

\* _find_all_caps_names
find_all_caps_names(txt) ==
  SelectSeq(findall(all_caps_pattern, txt),
            LAMBDA match : /\ Len(match) >= 3
                           /\ ~(\E k \in 1..Len(exclude_words) :
                                  Contains(match, upper(exclude_words[k])))
                           /\ Match(match, abbreviation_pattern, 1).end < 0)

\* _find_company_suffixes
find_company_suffixes(txt) ==
  Flatten([k \in 1..Len(suffix_patterns) |-> findall(suffix_patterns[k], txt)])

\* _score_candidate
score_candidate(candidate) ==
  LET candidate_lower == lower(candidate)
      length == Len(candidate)
      word_count == Len(split(candidate))
  IN (IF 10 <= length /\ length <= 50 THEN 10
      ELSE IF 5 <= length /\ length <= 60 THEN 5 ELSE 0)
     + (IF word_count >= 2 THEN 15 ELSE 0)
     + (IF AnyIn(business_suffixes, candidate_lower) THEN 20 ELSE 0)
     + (IF istitle(candidate) THEN 10 ELSE 0)
     - (IF AnyIn(exclude_words, candidate_lower) THEN 20 ELSE 0)
     - (IF isupper(candidate) /\ Len(candidate) > 10 THEN 5 ELSE 0)
     - (IF \E i \in 1..Len(candidate) : candidate[i] \in Digits THEN 10 ELSE 0)

\* the place of a scored candidate x in a list sorted by falling score: after
\* every element whose score is not smaller (list.sort is stable, also with
\* reverse=True)
InsertByScore(sorted, x) ==
  LET keep == SelectSeq(sorted, LAMBDA y : y.score >= x.score)
      move == SelectSeq(sorted, LAMBDA y : y.score < x.score)
  IN keep \o <<x>> \o move
\* scored_candidates.sort(key=lambda x: x[1], reverse=True), from element k on
RECURSIVE SortByScore(_, _, _)
SortByScore(scored_candidates, k, sorted) ==
  IF k > Len(scored_candidates) THEN sorted
  ELSE SortByScore(scored_candidates, k + 1, InsertByScore(sorted, scored_candidates[k]))
\* _select_best_candidate as it would be if, of candidates with the same
\* score, the last one came first
select_last_best(candidates) ==
  IF candidates = <<>> THEN <<>>
  ELSE strip(candidates[CHOOSE i \in 1..Len(candidates) :
                          \A j \in 1..Len(candidates) :
                            \/ score_candidate(candidates[j]) < score_candidate(candidates[i])
                            \/ /\ score_candidate(candidates[j]) = score_candidate(candidates[i])
                               /\ j <= i])

\* _select_best_candidate
select_best_candidate(candidates) ==
  IF candidates = <<>> THEN <<>>
  ELSE strip(SortByScore([k \in 1..Len(candidates) |->
                            [candidate |-> candidates[k],
                             score |-> score_candidate(candidates[k])]],
                         1, <<>>)[1].candidate)

\* the list candidates of extract_vendor
vendor_candidates(txt) ==
  find_near_keywords(txt) \o find_title_case_names(txt)
    \o find_all_caps_names(txt) \o find_company_suffixes(txt)

\* extract_vendor
BestOf(candidates) ==
  IF candidates # <<>> THEN select_best_candidate(candidates) ELSE <<>>
extract_vendor(txt) == BestOf(vendor_candidates(txt))

(***************************************************************************)
(* TextProcessor (main.py) and read_text_file (src/utils/file_utils.py).  *)
(***************************************************************************)
\* max_length of _create_text_excerpt
max_length == 500

\* _create_text_excerpt as it would be with "<" for "<="
ExcerptStrict(cleaned_text) ==
  IF Len(cleaned_text) < max_length THEN cleaned_text
  ELSE SubSeq(cleaned_text, 1, max_length) \o <<".", ".", ".">>
\* _create_text_excerpt as it would be without the truncation
ExcerptWhole(cleaned_text) == cleaned_text

\* _create_text_excerpt
Excerpt(cleaned_text) ==
  IF Len(cleaned_text) <= max_length THEN cleaned_text
  ELSE SubSeq(cleaned_text, 1, max_length) \o <<".", ".", ".">>
create_text_excerpt(txt) == Excerpt(join(<<" ">>, split(txt)))

\* priority_order as it would be with "due" before "invoice"
priority_order_due_first(label) ==
  CASE label = "due" -> 1
    [] label = "invoice" -> 2
    [] label = "order" -> 3
    [] label = "ship" -> 4
    [] OTHER -> 5

\* priority_order of _format_dates, with its default for other labels
priority_order(label) ==
  CASE label = "invoice" -> 1
    [] label = "due" -> 2
    [] label = "order" -> 3
    [] label = "ship" -> 4
    [] OTHER -> 5

\* sorted(dates, key=...) of _format_dates: stable, ascending
sorted_by_priority_order(dates) ==
  LET at(p) == SelectSeq(dates, LAMBDA d : priority_order(d.label) = p)
  IN at(1) \o (at(2) \o (at(3) \o (at(4) \o at(5))))

\* _format_dates: the columns of the dates in their sorted order, n of them
DateColumns(dates, sorted_dates, n) ==
  LET result == [date_primary_mmddyyyy |-> <<>>,
                 date1_mmddyyyy |-> <<>>, date1_label |-> "", date1_snippet |-> <<>>,
                 date2_mmddyyyy |-> <<>>, date2_label |-> "", date2_snippet |-> <<>>,
                 date3_mmddyyyy |-> <<>>, date3_label |-> "", date3_snippet |-> <<>>,
                 date_count |-> Len(dates)]
  IN IF dates = <<>> THEN result
     ELSE [result EXCEPT
             !.date_primary_mmddyyyy = sorted_dates[1].formatted_date,
             !.date1_mmddyyyy = sorted_dates[1].formatted_date,
             !.date1_label = sorted_dates[1].label,
             !.date1_snippet = sorted_dates[1].snippet,
             !.date2_mmddyyyy = IF n >= 2 THEN sorted_dates[2].formatted_date ELSE @,
             !.date2_label = IF n >= 2 THEN sorted_dates[2].label ELSE @,
             !.date2_snippet = IF n >= 2 THEN sorted_dates[2].snippet ELSE @,
             !.date3_mmddyyyy = IF n >= 3 THEN sorted_dates[3].formatted_date ELSE @,
             !.date3_label = IF n >= 3 THEN sorted_dates[3].label ELSE @,
             !.date3_snippet = IF n >= 3 THEN sorted_dates[3].snippet ELSE @]
format_dates(dates) == DateColumns(dates, sorted_by_priority_order(dates), Len(dates))

\* _create_empty_result as it would be with the key date_count forgotten
create_empty_result_without_count(filename, error) ==
  [filename |-> filename,
   text_excerpt |-> <<>>,
   date_primary_mmddyyyy |-> <<>>,
   date1_mmddyyyy |-> <<>>, date1_label |-> "", date1_snippet |-> <<>>,
   date2_mmddyyyy |-> <<>>, date2_label |-> "", date2_snippet |-> <<>>,
   date3_mmddyyyy |-> <<>>, date3_label |-> "", date3_snippet |-> <<>>,
   possible_vendor |-> <<>>,
   invoice_no |-> <<>>,
   total |-> <<>>,
   other_amounts |-> <<>>,
   errors |-> error]

\* _create_empty_result
create_empty_result(filename, error) ==
  [filename |-> filename,
   text_excerpt |-> <<>>,
   date_primary_mmddyyyy |-> <<>>,
   date1_mmddyyyy |-> <<>>, date1_label |-> "", date1_snippet |-> <<>>,
   date2_mmddyyyy |-> <<>>, date2_label |-> "", date2_snippet |-> <<>>,
   date3_mmddyyyy |-> <<>>, date3_label |-> "", date3_snippet |-> <<>>,
   date_count |-> 0,
   possible_vendor |-> <<>>,
   invoice_no |-> <<>>,
   total |-> <<>>,
   other_amounts |-> <<>>,
   errors |-> error]

\* An exception object is its type and its args; str(e) of an exception is ''
\* without args and the argument with one.
NoException == [type |-> "", args |-> <<>>]
str(e) == IF e.args = <<>> THEN "" ELSE e.args[1]

\* The outcome of a call: a returned value or a raised exception.
Return(value) == [raised |-> FALSE, exc |-> NoException, value |-> value]
Raise(e) == [raised |-> TRUE, exc |-> e, value |-> <<>>]

\* What open() and file.read() do with a file of the directory: "text" gives
\* the content, "oserror" raises an OSError (a file that cannot be opened),
\* "memoryerror" raises the MemoryError of a read that exhausts the memory.
\* read_text_file returns None for the OSError and handles nothing else;
\* None is the value [none |-> TRUE].
read_text_file(file) ==
  CASE file.read = "text" -> Return([none |-> FALSE, text |-> file.content])
    [] file.read = "oserror" -> Return([none |-> TRUE, text |-> <<>>])
    [] OTHER -> Raise([type |-> "MemoryError", args |-> <<>>])

\* result.update(other) of a dict
update(result, other) == other @@ result

\* the statements of process_file after the test of text_content: the dict
\* result. file.fault is the exception that an extractor raises on the
\* content of the file (NoException: none).
ResultDict(file, text_content, amounts) ==
  update(update([filename |-> file.name,
                 text_excerpt |-> create_text_excerpt(text_content)],
                format_dates(extract_dates(text_content))),
         [possible_vendor |-> extract_vendor(text_content),
          invoice_no |-> extract_invoice_number(text_content),
          total |-> amounts.total,
          other_amounts |-> amounts.other_amounts,
          errors |-> ""])
Extracted(file, text_content) ==
  IF file.fault # NoException THEN Raise(file.fault)
  ELSE Return(ResultDict(file, text_content, extract_amounts(text_content)))
\* the body of the try statement of process_file, after read_text_file
AfterRead(file, read) ==
  IF read.raised THEN read
  ELSE IF read.value.none \/ read.value.text = <<>>
  THEN Return(create_empty_result(file.name, "Empty file"))
  ELSE Extracted(file, read.value.text)
process_file_body(file) == AfterRead(file, read_text_file(file))

\* process_file as it would be without its handler: the exception leaves it
Unhandled(file, body) == body

\* the handler of process_file for Exception
Handled(file, body) ==
  IF body.raised THEN Return(create_empty_result(file.name, str(body.exc)))
  ELSE body
\* process_file: the try statement with its handler
process_file(file) == Handled(file, process_file_body(file))

\* columns of _save_to_csv
columns ==
  <<"filename", "text_excerpt", "date_primary_mmddyyyy",
    "date1_mmddyyyy", "date1_label", "date1_snippet",
    "date2_mmddyyyy", "date2_label", "date2_snippet",
    "date3_mmddyyyy", "date3_label", "date3_snippet",
    "date_count", "possible_vendor", "invoice_no",
    "total", "other_amounts", "errors">>

\* pd.DataFrame(results).reindex(columns=columns, fill_value=''): one row per
\* record with the cells of the columns in their order ("": no such key)
reindex(rows) ==
  [i \in 1..Len(rows) |->
     [c \in 1..Len(columns) |->
        IF columns[c] \in DOMAIN rows[i] THEN <<rows[i][columns[c]]>> ELSE <<>>]]

(***************************************************************************)
(* The directories of the model.                                           *)
(***************************************************************************)
\* the greatest number of .txt files of a directory
MaxFiles == 2

\* the names of the files, in the order of the glob
FileNames == <<"a.txt", "b.txt", "c.txt", "d.txt">>

InvoiceText ==
  <<"I","n","v","o","i","c","e"," ","#",":"," ","I","N","V","-","2","0","2",
    "4","-","0","0","1","\n","I","n","v","o","i","c","e"," ","D","a","t","e",
    ":"," ","0","1","/","1","5","/","2","0","2","4","\n","F","r","o","m",":",
    " ","A","c","m","e"," ","C","o","r","p","o","r","a","t","i","o","n","\n",
    "T","o","t","a","l",":"," ","$","1","2","0",".","0","0">>
NoteText == <<"s","e","e"," "," ","a","t","t","a","c","h","e","d","\n">>
BlankText == <<" ","\n">>

\* the kinds of file: two texts with content, a file of white space, an empty
\* file, a file that cannot be opened, a file whose read raises MemoryError,
\* and a text on which an extractor raises
FileKinds ==
  { [read |-> "text", content |-> InvoiceText, fault |-> NoException],
    [read |-> "text", content |-> NoteText, fault |-> NoException],
    [read |-> "text", content |-> BlankText, fault |-> NoException],
    [read |-> "text", content |-> <<>>, fault |-> NoException],
    [read |-> "oserror", content |-> <<>>, fault |-> NoException],
    [read |-> "memoryerror", content |-> <<>>, fault |-> NoException],
    [read |-> "text", content |-> NoteText,
     fault |-> [type |-> "RecursionError",
                args |-> <<"maximum recursion depth exceeded">>]] }

Directories ==
  UNION { { [i \in 1..n |-> [name |-> FileNames[i]] @@ kinds[i]] :
              kinds \in [1..n -> FileKinds] } : n \in 0..MaxFiles }

(***************************************************************************)
(* Config                                                                  *)
(***************************************************************************)
\* os.getenv(name, default) and int of it; env is the environment, a function
\* from the names that are set to their values
getenv(env, name, default) == IF name \in DOMAIN env THEN env[name] ELSE default
\* Config.__init__: the settings of the excerpt and of the dates
Config(env) ==
  [max_excerpt_length |-> getenv(env, "MAX_EXCERPT_LENGTH", 500),
   max_dates_per_file |-> getenv(env, "MAX_DATES_PER_FILE", 3)]
\* the environment in which no option is set
NoEnvironment == [name \in {} |-> 0]

\* config is self.config of the TextProcessor (TextProcessor.__init__)
VARIABLES pc, txt_files, idx, results, csv, text, out, config
vars == <<pc, txt_files, idx, results, csv, text, out, config>>

(***************************************************************************)
(* process_directory                                                       *)
(***************************************************************************)
Init ==
  /\ pc = "glob"
  /\ txt_files \in Directories
  /\ idx = 1
  /\ results = <<>>
  /\ csv = <<>>
  /\ text = <<>>
  /\ out = <<>>
  /\ config = Config(NoEnvironment)

\* "if not txt_files: return" of process_directory
NoFiles ==
  /\ pc = "glob"
  /\ txt_files = <<>>
  /\ pc' = "returned"
  /\ UNCHANGED <<txt_files, idx, results, csv, text, out, config>>

\* the entry of the loop over txt_files
StartLoop ==
  /\ pc = "glob"
  /\ txt_files # <<>>
  /\ pc' = "loop"
  /\ UNCHANGED <<txt_files, idx, results, csv, text, out, config>>

\* results.append(result) as it would be if the vendor extractor kept the
\* vendor of the document before when it finds none
AppendedWithCarry(result) ==
  IF result.raised
  THEN pc' = "aborted" /\ UNCHANGED <<idx, results>>
  ELSE /\ results' =
            Append(results,
                   IF results # <<>> /\ result.value.possible_vendor = <<>>
                   THEN [result.value EXCEPT
                           !.possible_vendor = results[Len(results)].possible_vendor]
                   ELSE result.value)
       /\ idx' = idx + 1
       /\ pc' = "loop"

\* results.append(result) and the next iteration, or the end of
\* process_directory by an exception
Appended(result) ==
  IF result.raised
  THEN pc' = "aborted" /\ UNCHANGED <<idx, results>>
  ELSE /\ results' = Append(results, result.value)
       /\ idx' = idx + 1
       /\ pc' = "loop"

\* one iteration of the loop: process_file and results.append. The loop has no
\* handler, so an exception that process_file raised would end
\* process_directory.
ProcessFile ==
  /\ pc = "loop"
  /\ idx <= Len(txt_files)
  /\ Appended(process_file(txt_files[idx]))
  /\ UNCHANGED <<txt_files, csv, text, out, config>>

\* _save_to_csv after the loop, and the return of process_directory
SaveToCsv ==
  /\ pc = "loop"
  /\ idx > Len(txt_files)
  /\ csv' = reindex(results)
  /\ pc' = "returned"
  /\ UNCHANGED <<txt_files, idx, results, text, out, config>>

Next == NoFiles \/ StartLoop \/ ProcessFile \/ SaveToCsv
Spec == Init /\ [][Next]_vars
\* process_directory runs to its end: no step of it waits for anything.
\* The weak fairness of ProcessFile is written out, ENABLED <<ProcessFile>>_vars
\* being the guard of the action (every iteration appends a record or ends
\* process_directory).
ProcessFileFair ==
  []<>(~(pc = "loop" /\ idx <= Len(txt_files))) \/ []<><<ProcessFile>>_vars
FairSpec ==
  Spec /\ WF_vars(NoFiles \/ StartLoop \/ SaveToCsv) /\ ProcessFileFair

(***************************************************************************)
(* The records of process_file and the run of process_directory.           *)
(***************************************************************************)
\* the 18 keys of a record
RecordKeys ==
  {"filename", "text_excerpt", "date_primary_mmddyyyy",
   "date1_mmddyyyy", "date1_label", "date1_snippet",
   "date2_mmddyyyy", "date2_label", "date2_snippet",
   "date3_mmddyyyy", "date3_label", "date3_snippet",
   "date_count", "possible_vendor", "invoice_no",
   "total", "other_amounts", "errors"}

\* a document that fails: it cannot be read, it is empty, or an extractor
\* raises on it
Fails(file) ==
  file.read # "text" \/ file.content = <<>> \/ file.fault # NoException

\* C1: every record that process_file returns, for a document that succeeds
\* and for one that fails in any way, has exactly the 18 keys of the record:
\* none is missing and none is extra.
C1_SameKeys ==
  /\ Cardinality(RecordKeys) = 18
  /\ \A i \in 1..Len(results) : DOMAIN results[i] = RecordKeys
\* a run that returned the record of a document with content after the record
\* of a document on which an extractor raised
C1_Witness ==
  /\ Len(results) = 2
  /\ txt_files[1].fault # NoException
  /\ results[1].errors = "maximum recursion depth exceeded"
  /\ ~Fails(txt_files[2])
  /\ results[2].errors = ""
  /\ results[2].total # <<>>

\* the records of the documents processed so far: one for each, in the order
\* of the enumeration, and for a document that does not fail the record that
\* its own content gives
OneRecordEach(n) ==
  /\ Len(results) = n
  /\ \A i \in 1..n :
       /\ results[i].filename = txt_files[i].name
       /\ ~Fails(txt_files[i]) =>
            results[i] = ResultDict(txt_files[i], txt_files[i].content,
                                    extract_amounts(txt_files[i].content))

\* C2: for a directory with documents of which any fail, process_directory
\* never aborts, and it returns having produced one record for each document
\* in the order of the enumeration, the record of a document that does not
\* fail being what the document alone gives.
C2_NeverAborts ==
  /\ [](pc # "aborted")
  /\ [](pc = "returned" => OneRecordEach(Len(txt_files)))
  /\ (txt_files # <<>>) => <>(pc = "returned")
\* a run that returned with the record of a failing first document and the
\* record of the invoice after it
C2_Witness ==
  /\ pc = "returned"
  /\ Len(txt_files) = 2
  /\ Fails(txt_files[1])
  /\ txt_files[2].content = InvoiceText /\ ~Fails(txt_files[2])
  /\ csv # <<>>
  /\ results[2].text_excerpt # <<>>

\* the extraction fields of a record are all empty
NothingExtracted(r) ==
  /\ r.text_excerpt = <<>>
  /\ r.date_primary_mmddyyyy = <<>>
  /\ r.date1_mmddyyyy = <<>> /\ r.date1_label = "" /\ r.date1_snippet = <<>>
  /\ r.date2_mmddyyyy = <<>> /\ r.date2_label = "" /\ r.date2_snippet = <<>>
  /\ r.date3_mmddyyyy = <<>> /\ r.date3_label = "" /\ r.date3_snippet = <<>>
  /\ r.possible_vendor = <<>>
  /\ r.invoice_no = <<>>
  /\ r.total = <<>>
  /\ r.other_amounts = <<>>

\* C3: the record of a document that is empty or unreadable, or on which the
\* extraction raises, has all its extraction fields empty and a non-empty
\* errors field.
C3_FailureRecord ==
  \A i \in 1..Len(results) :
    Fails(txt_files[i]) => NothingExtracted(results[i]) /\ results[i].errors # ""

(***************************************************************************)
(* CurrencyExtractor on its own: extract_amounts applied to a document and *)
(* _is_valid_amount applied to the cleaned words of the document.          *)
(***************************************************************************)
\* the greatest number of digits before the decimal point of an amount
MaxIntDigits == 10

Repeat(c, n) == [i \in 1..n |-> c]
\* the digits before the point: 0, 9..9 and 10..0 of every length, and the
\* two amounts at the upper limit with their thousands separators
WholeParts ==
  {<<"0">>, <<"9","9","9",",","9","9","9",",","9","9","9">>, <<"1",",","0","0","0",",","0","0","0",",","0","0","0">>}
    \cup {Repeat("9", k) : k \in 1..MaxIntDigits}
    \cup {<<"1">> \o Repeat("0", MaxIntDigits - 1)}
\* what follows them
FractionParts ==
  {<<>>, <<".">>, <<".","0","0">>, <<".","0","1">>, <<".","9","9">>, <<".","0","0","1">>, <<".","0",".","1">>}
\* a document with one amount after a currency symbol
OneAmountTexts == {<<"$">> \o w \o f : w \in WholeParts, f \in FractionParts}

\* documents with two amounts, each after a label
AmountLabels ==
  {<<"S","u","b","t","o","t","a","l",":"," ","$">>, <<"T","o","t","a","l",":"," ","$">>, <<"B","a","l","a","n","c","e"," ","$">>, <<"A","m","o","u","n","t"," ","D","u","e",":"," ","$">>, <<"$">>}
LabelledAmounts == {<<"1","0","0",".","0","0">>, <<"1","2","0",".","0","0">>}
TwoAmountTexts ==
  {l1 \o a1 \o <<"\n">> \o l2 \o a2 :
     l1 \in AmountLabels, a1 \in LabelledAmounts,
     l2 \in AmountLabels, a2 \in LabelledAmounts}

\* the document of the subtotal and the total
SubtotalTotalText == <<"S","u","b","t","o","t","a","l",":"," ","$","1","0","0",".","0","0"," ",".",".","."," ","T","o","t","a","l",":"," ","$","1","2","0",".","0","0">>
\* documents with an amount before its keyword, with an amount that is not
\* valid after a keyword, with repeated amounts, with no keyword, with none
OtherAmountTexts ==
  {SubtotalTotalText,
   <<"S","u","b","t","o","t","a","l",":"," ","$","1","0","0",".","0","0","\n","T","a","x",":"," ","$","2","0",".","0","0","\n","T","o","t","a","l",":"," ","$","1","2","0",".","0","0">>,
   <<"$","7",".","5","0"," ","t","o","t","a","l",","," ","p","a","y"," ","$","5",".","0","0">>,
   <<"P","a","y"," ","$","5",".","0","0"," ","n","o","w",";"," ","7",".","5","0"," ","t","o","t","a","l">>,
   <<"T","o","t","a","l",":"," ","$","0",".","0","0",","," ","f","e","e"," ","$","4",".","0","0">>,
   <<"I","t","e","m","s"," ","$","3",".","0","0"," ","a","n","d"," ","$","9",".","0","0">>,
   <<"$","2",".","5","0"," ","$","2",".","5"," ","2",".","5","0"," ","U","S","D"," ","a","n","d"," ","1",",","0","0","0"," ","E","U","R">>,
   <<"1","2",".","5"," ","d","u","e",","," ","b","a","l","a","n","c","e",":"," ","3","0">>,
   <<"n","o"," ","a","m","o","u","n","t","s"," ","h","e","r","e">>}
CurrencyTexts == OneAmountTexts \cup TwoAmountTexts \cup OtherAmountTexts

InitCurrency ==
  /\ pc = "currency"
  /\ text \in CurrencyTexts
  /\ out = <<>>
  /\ txt_files = <<>> /\ idx = 1 /\ results = <<>> /\ csv = <<>>
  /\ config = Config(NoEnvironment)

\* extract_amounts(text)
CallExtractAmounts ==
  /\ pc = "currency"
  /\ out' = extract_amounts(text)
  /\ pc' = "amounts"
  /\ UNCHANGED <<txt_files, idx, results, csv, text, config>>

\* _clean_amount and _is_valid_amount on a word of the document
Validated(cleaned) == [cleaned |-> cleaned, valid |-> is_valid_amount(cleaned)]
ValidateAmount ==
  /\ pc = "currency"
  /\ \E k \in 1..Len(split(text)) : out' = Validated(clean_amount(split(text)[k]))
  /\ pc' = "validated"
  /\ UNCHANGED <<txt_files, idx, results, csv, text, config>>

NextCurrency == CallExtractAmounts \/ ValidateAmount
SpecCurrency == InitCurrency /\ [][NextCurrency]_vars

\* An amount as the claims describe it: the characters before and after its
\* decimal point, and the number of digits from the first that is not 0.
PointCount(a) == Cardinality({i \in 1..Len(a) : a[i] = "."})
FirstPoint(a) ==
  IF PointCount(a) = 0 THEN Len(a) + 1
  ELSE CHOOSE i \in 1..Len(a) : a[i] = "." /\ \A j \in 1..(i - 1) : a[j] # "."
WholeOf(a) == SelectSeq(SubSeq(a, 1, FirstPoint(a) - 1), LAMBDA c : c \in Digits)
FractionOf(a) == SubSeq(a, FirstPoint(a) + 1, Len(a))
Significant(d) == Cardinality({i \in 1..Len(d) : \E j \in 1..i : d[j] # "0"})
\* 0.01 <= v <= 999,999,999.99 for an amount of at most two fractional digits:
\* at most 9 significant digits before the point, and not all digits 0
InClaimedRange(a) ==
  /\ Significant(WholeOf(a)) <= 9
  /\ Significant(WholeOf(a)) > 0 \/ Significant(FractionOf(a)) > 0
ClaimedValid(a) ==
  /\ \E i \in 1..Len(a) : a[i] \in Digits
  /\ PointCount(a) <= 1
  /\ Len(FractionOf(a)) <= 2
  /\ InClaimedRange(a)
\* the canonical string of an amount without "$" and ","
Plain(amount) == SelectSeq(amount, LAMBDA c : c \in Digits \cup {"."})
\* a < b for two canonical strings, which have two fractional digits each
CanonLess(a, b) ==
  \/ Len(Plain(a)) < Len(Plain(b))
  \/ /\ Len(Plain(a)) = Len(Plain(b))
     /\ \E i \in 1..Len(Plain(a)) :
          /\ Plain(a)[i] \in Digits /\ Plain(b)[i] \in Digits
          /\ \E x \in 1..10 : \E y \in (x + 1)..10 :
               DigitSeq[x] = Plain(a)[i] /\ DigitSeq[y] = Plain(b)[i]
          /\ \A j \in 1..(i - 1) : Plain(a)[j] = Plain(b)[j]

\* the amount of a document with one amount after "$"
AmountAfterSymbol(doc) == SubSeq(doc, 2, Len(doc))
\* what extract_amounts gives for a document with the one amount a
OnlyAmount(result, canonical) ==
  result.total = canonical /\ result.other_amounts = <<>>

\* C4: for the text "Subtotal: $100.00 ... Total: $120.00" extract_amounts
\* returns the total "$120.00", the amount next to "Total", and other_amounts
\* contains "$100.00".
C4_TotalNotSubtotal ==
  (pc = "amounts" /\ text = SubtotalTotalText) =>
    /\ out.total = <<"$","1","2","0",".","0","0">>
    /\ Contains(out.other_amounts, <<"$","1","0","0",".","0","0">>)

\* C5: an amount is accepted if and only if it has a digit, at most one
\* decimal point, at most two fractional digits and a value from 0.01 to
\* 999,999,999.99: 0.00 and 1,000,000,000.00 are rejected, 0.01 and
\* 999,999,999.99 are accepted, and the total and the other amounts are all
\* within the range.
C5_ValidAmount ==
  /\ pc = "validated" => (out.valid <=> ClaimedValid(out.cleaned))
  /\ (pc = "amounts" /\ text \in OneAmountTexts /\ PointCount(text) <= 1) =>
       (out.all_amounts # <<>> <=> ClaimedValid(AmountAfterSymbol(text)))
  /\ pc = "amounts" =>
       /\ \A i \in 1..Len(out.all_amounts) : InClaimedRange(Plain(out.all_amounts[i]))
       /\ out.total # <<>> => InClaimedRange(Plain(out.total))
       /\ \A i \in 1..Len(out.others) : InClaimedRange(Plain(out.others[i]))
       /\ text \in {<<"$","0",".","0","0">>, <<"$","1",",","0","0","0",",","0","0","0",",","0","0","0",".","0","0">>, <<"$","1","0","0","0","0","0","0","0","0","0",".","0","0">>}
            => OnlyAmount(out, <<>>)
       /\ text = <<"$","0",".","0","1">> => OnlyAmount(out, text)
       /\ text \in {<<"$","9","9","9","9","9","9","9","9","9",".","9","9">>, <<"$","9","9","9",",","9","9","9",",","9","9","9",".","9","9">>}
            => OnlyAmount(out, <<"$","9","9","9",",","9","9","9",",","9","9","9",".","9","9">>)
\* the greatest amount was accepted and the least was validated
C5_Witness ==
  \/ pc = "amounts" /\ text = <<"$","9","9","9","9","9","9","9","9","9",".","9","9">> /\ out.total # <<>>
  \/ pc = "validated" /\ out.cleaned = <<"0",".","0","1">> /\ out.valid

\* The amounts next to a phrase, read off the text position by position.
\* the places where the phrase stands
Occurrences(s, phrase) ==
  SelectSeq([i \in 1..Len(s) |-> i],
            LAMBDA i : /\ i + Len(phrase) - 1 <= Len(s)
                       /\ SubSeq(s, i, i + Len(phrase) - 1) = phrase)
\* w is digits and commas, then perhaps a point and digits
IsNumber(w) ==
  /\ w # <<>>
  /\ w[1] \in Digits \cup {","}
  /\ \A i \in 1..Len(w) : w[i] \in Digits \cup {",", "."}
  /\ \A i \in 1..Len(w) : w[i] = "." => \A j \in (i + 1)..Len(w) : w[j] \in Digits
\* the longest number that starts at i (<<>>: none starts there)
NumberFrom(s, i) ==
  IF \E e \in i..Len(s) : IsNumber(SubSeq(s, i, e))
  THEN SubSeq(s, i, CHOOSE e \in i..Len(s) :
                      /\ IsNumber(SubSeq(s, i, e))
                      /\ \A f \in (e + 1)..Len(s) : ~IsNumber(SubSeq(s, i, f)))
  ELSE <<>>
\* the longest number that ends at e (<<>>: none ends there)
NumberTo(s, e) ==
  IF \E i \in 1..e : IsNumber(SubSeq(s, i, e))
  THEN SubSeq(s, CHOOSE i \in 1..e :
                   /\ IsNumber(SubSeq(s, i, e))
                   /\ \A h \in 1..(i - 1) : ~IsNumber(SubSeq(s, h, e)), e)
  ELSE <<>>
\* the place after the colons, the white space and the one "$" that may
\* follow the phrase that ends before i
AfterSeparators(s, i) ==
  CHOOSE j \in i..(Len(s) + 1) :
    \E d \in i..j :
      /\ \A k \in i..(d - 1) : s[k] \in {":"} \cup Space
      /\ d > Len(s) \/ s[d] \notin {":"} \cup Space
      /\ \E t \in {d, d + 1} \cap (i..j) :
           /\ t = d + 1 => (d <= Len(s) /\ s[d] = "$")
           /\ t = d => (d > Len(s) \/ s[d] # "$")
           /\ \A k \in t..(j - 1) : s[k] \in Space
           /\ j > Len(s) \/ s[j] \notin Space
\* the place of the last character before the white space that precedes i
BeforeSpace(s, i) ==
  CHOOSE j \in 0..(i - 1) :
    /\ \A k \in (j + 1)..(i - 1) : s[k] \in Space
    /\ j = 0 \/ s[j] \notin Space
\* the amounts right after the phrase and right before it, in text order
AmountsAfter(s, phrase) ==
  SelectSeq([k \in 1..Len(Occurrences(s, phrase)) |->
               NumberFrom(s, AfterSeparators(s, Occurrences(s, phrase)[k] + Len(phrase)))],
            NonEmpty)
AmountsBefore(s, phrase) ==
  SelectSeq([k \in 1..Len(Occurrences(s, phrase)) |->
               NumberTo(s, BeforeSpace(s, Occurrences(s, phrase)[k]))],
            NonEmpty)
\* the canonical strings of the amounts next to the phrases, in the order of
\* the scan: phrase by phrase, after the phrase and then before it
Canonical(amounts) == [k \in 1..Len(amounts) |-> format_amount(clean_amount(amounts[k]))]
InScanOrder(s) ==
  Flatten([k \in 1..Len(total_keywords) |->
             Canonical(AmountsAfter(s, total_keywords[k]))
               \o Canonical(AmountsBefore(s, total_keywords[k]))])
\* the first of them that is in the amount set, or else the largest amount
RuleTotal(scan, all_amounts) ==
  IF all_amounts = <<>> THEN <<>>
  ELSE Head(SelectSeq(scan, LAMBDA a : InList(a, all_amounts))
              \o <<CHOOSE a \in {all_amounts[i] : i \in 1..Len(all_amounts)} :
                     \A i \in 1..Len(all_amounts) : ~CanonLess(a, all_amounts[i])>>)

RECURSIVE CommaJoined(_)
CommaJoined(list) ==
  IF list = <<>> THEN <<>>
  ELSE IF Len(list) = 1 THEN list[1]
  ELSE list[1] \o <<",", " ">> \o CommaJoined(Tail(list))

\* C18: the amount set has no canonical string twice and falls strictly by
\* value; the total is one of its members (empty when there is none);
\* other_amounts is the set without the total, in the same order, joined with
\* commas; the total is not among the other amounts.
C18_Partition ==
  pc = "amounts" =>
    /\ \A i \in 1..Len(out.all_amounts) : \A j \in (i + 1)..Len(out.all_amounts) :
         /\ out.all_amounts[i] # out.all_amounts[j]
         /\ CanonLess(out.all_amounts[j], out.all_amounts[i])
    /\ IF out.all_amounts = <<>> THEN out.total = <<>>
       ELSE InList(out.total, out.all_amounts)
    /\ out.others = SelectSeq(out.all_amounts, LAMBDA a : a # out.total)
    /\ out.other_amounts = CommaJoined(out.others)
    /\ ~InList(out.total, out.others)
\* three amounts of which the total is not the largest, and a document that
\* states an amount three times
C18_Witness ==
  /\ pc = "amounts"
  /\ \/ /\ out.total = <<"$","1","0","0",".","0","0">>
        /\ out.other_amounts = <<"$","1","2","0",".","0","0",","," ","$","2","0",".","0","0">>
     \/ /\ text = <<"$","2",".","5","0"," ","$","2",".","5"," ","2",".","5","0"," ","U","S","D"," ","a","n","d"," ","1",",","0","0","0"," ","E","U","R">>
        /\ out.all_amounts = <<<<"$","1",",","0","0","0",".","0","0">>, <<"$","2",".","5","0">>>>

(***************************************************************************)
(* InvoiceExtractor on its own: extract_invoice_number applied to a        *)
(* document and _is_valid_invoice_number applied to its words.             *)
(***************************************************************************)
\* the greatest length of a candidate of digits, and of one of a letter and
\* digits
MaxNumericLen == 5
MaxIdLen == 21

InvoiceLabels ==
  {<<"I","n","v","o","i","c","e"," ","#",":"," ">>, <<"I","n","v","o","i","c","e"," ","N","u","m","b","e","r",":"," ">>, <<"I","N","V"," ">>, <<"B","i","l","l"," ","N","o",":"," ">>, <<"R","e","f",":"," ">>, <<"i","n","v","o","i","c","e"," ">>}
InvoiceCandidates ==
  {<<"I","N","V","-","2","0","2","4","-","0","0","1">>, <<"I","N","V","O","I","C","E">>, <<"i","n","v","_","7","7">>, <<"A","-","1">>, <<"1","-","A">>, <<"2","0","2","4","-","0","0","1">>}
    \cup {Repeat("1", k) : k \in 1..MaxNumericLen}
    \cup {<<"A">> \o Repeat("1", k - 1) : k \in 2..MaxIdLen}
\* a document of one line: a label and a candidate
OneLineTexts == {l \o c : l \in InvoiceLabels, c \in InvoiceCandidates}
\* documents of two lines
TwoLineTexts ==
  {<<"I","n","v","o","i","c","e"," ","f","o","r"," ","o","r","d","e","r"," ","5","5","5","1","2","3","4"," ","a","t","t","a","c","h","e","d","\n","I","n","v"," ","#",":"," ","A","B","-","1","0","0">>,
   <<"I","n","v","o","i","c","e"," ","s","u","m","m","a","r","y","\n","I","n","v","o","i","c","e"," ","#",":"," ","I","N","V","-","2","0","2","4","-","0","0","1">>,
   <<"P","l","e","a","s","e"," ","s","e","e"," ","a","t","t","a","c","h","e","d","\n","I","n","v",":"," ","7","7","8","8","9","9">>,
   <<"I","n","v","o","i","c","e","\n","N","u","m","b","e","r",":"," ","4","4","5","5","6","6">>,
   <<"O","r","d","e","r"," ","1","2","3","4","5","\n","r","e","f"," ","9","9","9">>}
InvoiceTexts == OneLineTexts \cup TwoLineTexts

InitInvoice ==
  /\ pc = "invoice"
  /\ text \in InvoiceTexts
  /\ out = <<>>
  /\ txt_files = <<>> /\ idx = 1 /\ results = <<>> /\ csv = <<>>
  /\ config = Config(NoEnvironment)

\* extract_invoice_number(text)
CallExtractInvoiceNumber ==
  /\ pc = "invoice"
  /\ out' = extract_invoice_number(text)
  /\ pc' = "number"
  /\ UNCHANGED <<txt_files, idx, results, csv, text, config>>

\* _is_valid_invoice_number on a word of the document
Checked(candidate) ==
  [candidate |-> candidate, valid |-> is_valid_invoice_number(candidate)]
CheckCandidate ==
  /\ pc = "invoice"
  /\ \E k \in 1..Len(split(text)) : out' = Checked(split(text)[k])
  /\ pc' = "checked"
  /\ UNCHANGED <<txt_files, idx, results, csv, text, config>>

NextInvoice == CallExtractInvoiceNumber \/ CheckCandidate
SpecInvoice == InitInvoice /\ [][NextInvoice]_vars

\* The validity predicate as the claims state it.
HasDigit(c) == \E i \in 1..Len(c) : c[i] \in Digits
HasLetter(c) == \E i \in 1..Len(c) : c[i] \in Letters
AllDigits(c) == \A i \in 1..Len(c) : c[i] \in Digits
Stopwords ==
  {<<"i","n","v","o","i","c","e">>, <<"n","u","m","b","e","r">>, <<"t","o","t","a","l">>, <<"a","m","o","u","n","t">>, <<"d","a","t","e">>, <<"d","u","e">>, <<"p","a","i","d">>, <<"b","a","l","a","n","c","e">>, <<"t","a","x">>, <<"s","h","i","p","p","i","n","g">>, <<"s","u","b","t","o","t","a","l">>}
ClaimedValidNumber(c) ==
  /\ HasDigit(c)
  /\ Len(c) >= 3 /\ Len(c) <= 20
  /\ \A i \in 1..Len(c) : c[i] \in Letters \cup Digits \cup {"_", "-"}
  /\ lower(c) \notin Stopwords
  /\ (HasLetter(c) /\ HasDigit(c)) \/ (AllDigits(c) /\ Len(c) >= 4)
NoLowerCase(c) == \A i \in 1..Len(c) : c[i] \notin LowerLetters

\* C6: the result of extract_invoice_number is empty or an upper-cased string
\* that satisfies the validity predicate; "INVOICE" is never returned, and
\* "INV-2024-001" is accepted and returned as it is.
C6_ValidNumber ==
  /\ pc = "number" =>
       /\ out = <<>> \/ (NoLowerCase(out) /\ ClaimedValidNumber(out))
       /\ out # <<"I","N","V","O","I","C","E">>
       /\ text = <<"I","n","v","o","i","c","e"," ","#",":"," ","I","N","V","-","2","0","2","4","-","0","0","1">> => out = <<"I","N","V","-","2","0","2","4","-","0","0","1">>
  /\ pc = "checked" => (out.valid <=> ClaimedValidNumber(out.candidate))
\* a number was returned for "Invoice #: INV-2024-001", a number of four
\* digits was returned, and the candidate "INVOICE" was rejected
C6_Witness ==
  \/ pc = "number" /\ out = <<"I","N","V","-","2","0","2","4","-","0","0","1">>
  \/ pc = "number" /\ out = <<"1","1","1","1">>
  \/ pc = "checked" /\ out.candidate = <<"I","N","V","O","I","C","E">> /\ ~out.valid

\* a candidate without its separators
WithoutSeparators(c) == SelectSeq(c, LAMBDA x : x \notin {"-", "_", " "})

\* C15: a candidate that has fewer than 3 characters once "-", "_" and spaces
\* are removed, as "1-A" and "A-1", is rejected by the validity predicate and
\* is never returned by extract_invoice_number.
C15_LengthAfterStripping ==
  /\ pc = "checked" => (Len(WithoutSeparators(out.candidate)) < 3 => ~out.valid)
  /\ pc = "number" => (out = <<>> \/ Len(WithoutSeparators(out)) >= 3)

\* the candidate that the keyword patterns give on a line with a keyword, and
\* the candidate that the standalone tokens give on a line with "invoice"
Anchored(ln) ==
  IF HasInvoiceKeyword(strip(lower(ln))) THEN FromLinePatterns(lower(ln), 1)
  ELSE <<>>
Standalone(ln) ==
  IF Contains(lower(ln), <<"i","n","v","o","i","c","e">>)
  THEN FirstValid(findall(standalone_pattern, ln), 1)
  ELSE <<>>
\* the number by the order of the passes that the claim states
InClaimedOrder(txt, text_lines) ==
  IfEmpty(FirstNonEmpty([k \in 1..Len(text_lines) |-> Anchored(text_lines[k])]),
          IfEmpty(FirstNonEmpty([k \in 1..Len(text_lines) |-> Standalone(text_lines[k])]),
                  FromFullText(lower(txt))))

\* C16: the keyword patterns are tried on every line with a keyword from top
\* to bottom first, the standalone tokens of an "invoice" line only when no
\* line gives a valid candidate by the keyword patterns, and the full text
\* only when the lines gave nothing: a keyword match on a later line is
\* returned rather than a standalone token of an earlier "invoice" line.
C16_PassOrder ==
  pc = "number" => out = InClaimedOrder(text, SplitLines(text, 1))

(***************************************************************************)
(* DateExtractor on its own: extract_dates applied to a document, and      *)
(* _format_dates applied to what it returns.                               *)
(***************************************************************************)
\* the months of the dates of the documents: 1..MaxMonth
MaxMonth == 2

DateLabels ==
  {<<"I","n","v","o","i","c","e"," ","D","a","t","e",":"," ">>, <<"D","u","e"," ","D","a","t","e",":"," ">>, <<"O","r","d","e","r"," ","D","a","t","e",":"," ">>, <<"S","h","i","p"," ","D","a","t","e",":"," ">>, <<"D","a","t","e",":"," ">>}
\* the 15th of month m of 2024 as a document writes it
DayOf(m) == <<"0", DigitChar(m)>> \o <<"/","1","5","/","2","0","2","4">>
DateLines == {l \o DayOf(m) : l \in DateLabels, m \in 1..MaxMonth}
\* documents of one line and of two lines
LabelledDateTexts ==
  DateLines \cup {a \o <<"\n">> \o b : a \in DateLines, b \in DateLines}
\* documents whose dates are all out of the year range or no dates at all
RejectedDateTexts ==
  {<<"I","n","v","o","i","c","e"," ","D","a","t","e",":"," ","0","1","/","1","5","/","1","8","5","0">>,
   <<"D","u","e"," ","D","a","t","e",":"," ","0","1","/","1","5","/","2","1","5","0">>,
   <<"D","a","t","e",":"," ","0","2","/","3","0","/","2","0","2","4">>,
   <<"S","h","i","p","p","e","d"," ","1","8","5","0","-","0","1","-","1","5">>}
\* documents with four labelled dates, with a rejected date beside a date,
\* with a month name, and without a date
OtherDateTexts ==
  {<<"S","h","i","p"," ","D","a","t","e",":"," ","0","4","/","1","5","/","2","0","2","4","\n","O","r","d","e","r"," ","D","a","t","e",":"," ","0","3","/","1","5","/","2","0","2","4","\n","D","u","e"," ","D","a","t","e",":"," ","0","2","/","1","5","/","2","0","2","4","\n","I","n","v","o","i","c","e"," ","D","a","t","e",":"," ","0","1","/","1","5","/","2","0","2","4">>,
   <<"I","n","v","o","i","c","e"," ","D","a","t","e",":"," ","0","1","/","1","5","/","1","8","5","0","\n","D","u","e"," ","D","a","t","e",":"," ","0","2","/","1","5","/","2","0","2","4">>,
   <<"D","u","e",":"," ","M","a","r","c","h"," ","5",","," ","2","0","2","4">>,
   <<"n","o"," ","d","a","t","e"," ","h","e","r","e">>}
DateTexts == LabelledDateTexts \cup RejectedDateTexts \cup OtherDateTexts

InitDates ==
  /\ pc = "dates"
  /\ text \in DateTexts
  /\ out = <<>>
  /\ txt_files = <<>> /\ idx = 1 /\ results = <<>> /\ csv = <<>>
  /\ config = Config(NoEnvironment)

\* extract_dates(text), and _format_dates of the list it returns
Formatted(dates) == [dates |-> dates, record |-> format_dates(dates)]
CallExtractDates ==
  /\ pc = "dates"
  /\ out' = Formatted(extract_dates(text))
  /\ pc' = "found"
  /\ UNCHANGED <<txt_files, idx, results, csv, text, config>>

NextDates == CallExtractDates
SpecDates == InitDates /\ [][NextDates]_vars

\* the slots of a record, in their order, and those that hold a date
SlotsOf(r) ==
  << [date |-> r.date1_mmddyyyy, label |-> r.date1_label, snippet |-> r.date1_snippet],
     [date |-> r.date2_mmddyyyy, label |-> r.date2_label, snippet |-> r.date2_snippet],
     [date |-> r.date3_mmddyyyy, label |-> r.date3_label, snippet |-> r.date3_snippet] >>
Populated(r) == {k \in 1..3 : SlotsOf(r)[k].date # <<>>}
\* the priority of a label as the claims give it
Rank(label) ==
  CASE label = "invoice" -> 1 [] label = "due" -> 2 [] label = "order" -> 3
    [] label = "ship" -> 4 [] label = "unknown" -> 5
InvoiceJanuary == <<"I","n","v","o","i","c","e"," ","D","a","t","e",":"," ","0","1","/","1","5","/","2","0","2","4">>
DueFebruary == <<"D","u","e"," ","D","a","t","e",":"," ","0","2","/","1","5","/","2","0","2","4">>

\* C7: the populated date slots of a record are in non-decreasing order of
\* label priority; for a text with the invoice date 01/15/2024 and the due
\* date 02/15/2024, date1 is the invoice date and date2 the due date.
C7_DateRanking ==
  pc = "found" =>
    /\ \A j \in Populated(out.record) : \A k \in Populated(out.record) :
         j < k => Rank(SlotsOf(out.record)[j].label) <= Rank(SlotsOf(out.record)[k].label)
    /\ text \in {InvoiceJanuary \o <<"\n">> \o DueFebruary,
                 DueFebruary \o <<"\n">> \o InvoiceJanuary} =>
         /\ out.record.date1_label = "invoice"
         /\ out.record.date1_mmddyyyy = <<"0","1","/","1","5","/","2","0","2","4">>
         /\ out.record.date2_label = "due"
         /\ out.record.date2_mmddyyyy = <<"0","2","/","1","5","/","2","0","2","4">>
\* the due date stands first in the text and second in the record
C7_Witness ==
  /\ pc = "found"
  /\ text = DueFebruary \o <<"\n">> \o InvoiceJanuary
  /\ out.record.date1_label = "invoice"
  /\ out.record.date2_label = "due"
  /\ out.record.date3_label = "unknown"

\* the year of a date in the form mm/dd/yyyy
YearIn(date) == ToNat(SubSeq(date, 7, 10))
NoSlot(r) ==
  /\ Populated(r) = {}
  /\ r.date_primary_mmddyyyy = <<>>
  /\ r.date_count = 0

\* C11: no date with a year outside 1900..2100, as 1850 or 2150, appears in
\* what extract_dates returns or in a date field of the record; a candidate
\* out of the range, or one that cannot be parsed, is dropped and does not
\* count as a found date.
C11_RangeRejection ==
  pc = "found" =>
    /\ \A k \in 1..Len(out.dates) :
         YearIn(out.dates[k].formatted_date) \in 1900..2100
    /\ text \in RejectedDateTexts => (out.dates = <<>> /\ NoSlot(out.record))

\* C14: no two findings of extract_dates have the same normalized date, and
\* the finding kept for a date is the first, in the order of the candidates,
\* among the candidates of that date with the label of highest priority.
KeptFirst(dates, cands) ==
  /\ \A j \in 1..Len(dates) : \A k \in 1..Len(dates) :
       j # k => dates[j].formatted_date # dates[k].formatted_date
  /\ \A k \in 1..Len(dates) :
       \E i \in 1..Len(cands) :
         /\ cands[i] = dates[k]
         /\ \A j \in 1..Len(cands) :
              cands[j].formatted_date = dates[k].formatted_date =>
                \/ Rank(cands[j].label) > Rank(dates[k].label)
                \/ Rank(cands[j].label) = Rank(dates[k].label) /\ j >= i
  /\ \A i \in 1..Len(cands) :
       Len(dates) = 3 \/ \E k \in 1..Len(dates) :
                           dates[k].formatted_date = cands[i].formatted_date
C14_Deduplication == pc = "found" => KeptFirst(out.dates, candidate_dates(text))
\* a date that stands under two labels is kept with the label "invoice"
C14_Witness ==
  /\ pc = "found"
  /\ text = <<"D","u","e"," ","D","a","t","e",":"," ","0","1","/","1","5","/","2","0","2","4">> \o <<"\n">> \o InvoiceJanuary
  /\ Len(out.dates) = 2
  /\ out.dates[1].label = "invoice"
  /\ out.dates[1].formatted_date = <<"0","1","/","1","5","/","2","0","2","4">>
  /\ out.dates[2].label = "unknown"

\* C19: date_count is in 0..3 and is the number of populated slots; the slots
\* are filled from the first on; date_primary_mmddyyyy is date1_mmddyyyy; and
\* the slots hold the findings in the order in which extract_dates returned
\* them.
C19_SlotShape ==
  pc = "found" =>
    /\ out.record.date_count \in 0..3
    /\ out.record.date_count = Cardinality(Populated(out.record))
    /\ \A k \in Populated(out.record) : \A j \in 1..(k - 1) : j \in Populated(out.record)
    /\ out.record.date_primary_mmddyyyy = out.record.date1_mmddyyyy
    /\ Len(out.dates) = Cardinality(Populated(out.record))
    /\ \A k \in 1..Len(out.dates) :
         /\ k <= 3
         /\ SlotsOf(out.record)[k].date = out.dates[k].formatted_date
         /\ SlotsOf(out.record)[k].label = out.dates[k].label
         /\ SlotsOf(out.record)[k].snippet = out.dates[k].snippet
\* four labelled dates give three slots
C19_Witness ==
  /\ pc = "found"
  /\ Len(candidate_dates(text)) >= 4
  /\ out.record.date_count = 3
  /\ out.record.date1_label = "invoice"
  /\ out.record.date3_label = "order"

(***************************************************************************)
(* _create_text_excerpt on its own.                                        *)
(***************************************************************************)
\* the visible lengths of the texts: within Near of max_length, and 0 and
\* LongVisible
Near == 20
LongVisible == 600
VisibleLengths ==
  {0, LongVisible} \cup {n \in (max_length - Near)..(max_length + Near) : n >= 0}
\* what stands between two words of a text, and around the text
WordGaps == {<<" ">>, <<" ", "\n", "\t">>}
Margins == {<<>>, <<"\n", " ">>}
\* a text of n visible characters: words of WordLen letters, the last one
\* shorter, with gap between them and margin around them
WordLen == 7
Letter(i) == IF i % 2 = 0 THEN "e" ELSE "X"
RECURSIVE WordsOf(_, _, _, _)
WordsOf(lo, hi, gap, first) ==
  IF lo > hi THEN <<>>
  ELSE IF hi - lo < WordLen
  THEN (IF first THEN <<>> ELSE gap) \o [i \in 1..(hi - lo + 1) |-> Letter(lo + i)]
  ELSE LET mid == lo + WordLen * (((hi - lo + 1) \div WordLen + 1) \div 2)
       IN WordsOf(lo, mid - 2, gap, first) \o WordsOf(mid, hi, gap, FALSE)
TextOf(n, gap, margin) == margin \o WordsOf(1, n, gap, TRUE) \o margin
ExcerptTexts ==
  {TextOf(n, gap, margin) : n \in VisibleLengths, gap \in WordGaps, margin \in Margins}

InitExcerpt ==
  /\ pc = "excerpt"
  /\ text \in ExcerptTexts
  /\ out = <<>>
  /\ txt_files = <<>> /\ idx = 1 /\ results = <<>> /\ csv = <<>>
  /\ config = Config(NoEnvironment)

\* self._create_text_excerpt(text_content)
CallCreateTextExcerpt ==
  /\ pc = "excerpt"
  /\ out' = create_text_excerpt(text)
  /\ pc' = "excerpted"
  /\ UNCHANGED <<txt_files, idx, results, csv, text, config>>

NextExcerpt == CallCreateTextExcerpt
SpecExcerpt == InitExcerpt /\ [][NextExcerpt]_vars

\* the positions of txt that the collapse of white space keeps: those of the
\* visible characters and the first of each run of white space between two
\* of them
KeptPositions(txt) ==
  SelectSeq([i \in 1..Len(txt) |-> i],
            LAMBDA i : \/ txt[i] \notin Space
                       \/ /\ i > 1 /\ txt[i - 1] \notin Space
                          /\ \E j \in (i + 1)..Len(txt) : txt[j] \notin Space)
AtPositions(txt, kept) ==
  [k \in 1..Len(kept) |-> IF txt[kept[k]] \in Space THEN " " ELSE txt[kept[k]]]
Collapsed(txt) == AtPositions(txt, KeptPositions(txt))
Ellipsis == <<".", ".", ".">>
ExcerptOf(collapsed, got) ==
  /\ Len(collapsed) <= 500 => got = collapsed
  /\ Len(collapsed) > 500 => got = SubSeq(collapsed, 1, 500) \o Ellipsis
  /\ Len(collapsed) = 600 =>
       Len(got) = 503 /\ SubSeq(got, 501, 503) = Ellipsis

\* C8: the excerpt is the text with its white space collapsed when that has
\* at most 500 characters, and its first 500 characters followed by "..."
\* otherwise; 600 visible characters give an excerpt of 503 characters that
\* ends in "...".
C8_ExcerptTruncation == pc = "excerpted" => ExcerptOf(Collapsed(text), out)
\* a text of 600 visible characters with runs of white space in it
C8_Witness ==
  /\ pc = "excerpted"
  /\ Len(text) > 600
  /\ Len(Collapsed(text)) = 600
  /\ Len(out) = 503
  /\ SubSeq(out, 501, 503) = Ellipsis

\* C9 as stated: text_excerpt has at most 500 characters.
C9_AtMost500 == pc = "excerpted" => Len(out) <= 500
\* C9: text_excerpt has at most 503 characters: 500 of the text and the
\* three of "...".
C9_AtMost503 == pc = "excerpted" => Len(out) <= 503
\* a text of 501 visible characters, with an excerpt of 503
C9_Witness ==
  /\ pc = "excerpted"
  /\ Len(Collapsed(text)) = 501
  /\ Len(out) = 503

(***************************************************************************)
(* VendorExtractor on its own: extract_vendor applied to a document.       *)
(***************************************************************************)
VendorPhrases ==
  {<<"A","c","m","e"," ","C","o","r","p","o","r","a","t","i","o","n">>,
   <<"A","B","C">>,
   <<"A","l","p","h","a"," ","B","e","t","a">>,
   <<"G","a","m","m","a"," ","D","e","l","t","a">>,
   <<"G","L","O","B","E","X"," ","I","N","D","U","S","T","R","I","E","S">>,
   <<"V","e","n","d","o","r",":"," ","I","n","i","t","e","c","h">>,
   <<"i","n","v","o","i","c","e"," ","t","o","t","a","l">>,
   <<"P","a","y","m","e","n","t"," ","T","e","r","m","s">>,
   <<"S","m","i","t","h"," ","&"," ","S","o","n","s"," ","L","L","C">>}
PhraseGaps == {<<"\n">>, <<","," ">>}
\* documents of one phrase and of two phrases
VendorTexts ==
  VendorPhrases
    \cup {a \o gap \o b : a \in VendorPhrases, b \in VendorPhrases, gap \in PhraseGaps}

InitVendor ==
  /\ pc = "vendor"
  /\ text \in VendorTexts
  /\ out = <<>>
  /\ txt_files = <<>> /\ idx = 1 /\ results = <<>> /\ csv = <<>>
  /\ config = Config(NoEnvironment)

\* self.vendor_extractor.extract_vendor(text_content)
CallExtractVendor ==
  /\ pc = "vendor"
  /\ out' = extract_vendor(text)
  /\ pc' = "named"
  /\ UNCHANGED <<txt_files, idx, results, csv, text, config>>

NextVendor == CallExtractVendor
SpecVendor == InitVendor /\ [][NextVendor]_vars

\* got is the first of the candidates, stripped, whose score no other
\* candidate exceeds
FirstOfBest(candidates, got) ==
  \E i \in 1..Len(candidates) :
    /\ got = strip(candidates[i])
    /\ \A j \in 1..Len(candidates) :
         score_candidate(candidates[j]) <= score_candidate(candidates[i])
    /\ \A j \in 1..(i - 1) :
         score_candidate(candidates[j]) < score_candidate(candidates[i])
Selected(candidates, got) ==
  IF candidates = <<>> THEN got = <<>> ELSE FirstOfBest(candidates, got)
AcmeCorporation == <<"A","c","m","e"," ","C","o","r","p","o","r","a","t","i","o","n">>
AcmeAndAbbreviation ==
  {AcmeCorporation \o gap \o <<"A", "B", "C">> : gap \in PhraseGaps}
    \cup {<<"A", "B", "C">> \o gap \o AcmeCorporation : gap \in PhraseGaps}

\* C10: extract_vendor returns the empty string when the four strategies
\* give no candidate, and otherwise the first, in the order keyword
\* proximity, title case, all caps, suffix, of the candidates of greatest
\* score, stripped; "Acme Corporation" is returned when it stands beside
\* the abbreviation "ABC".
C10_VendorSelection ==
  pc = "named" =>
    /\ Selected(find_near_keywords(text) \o find_title_case_names(text)
                  \o find_all_caps_names(text) \o find_company_suffixes(text),
                out)
    /\ text \in AcmeAndAbbreviation => out = AcmeCorporation
\* two names of the same score: the first of them is returned
C10_Witness ==
  /\ pc = "named"
  /\ text = <<"A","l","p","h","a"," ","B","e","t","a",","," ","G","a","m","m","a"," ","D","e","l","t","a">>
  /\ score_candidate(<<"A","l","p","h","a"," ","B","e","t","a">>) = score_candidate(<<"G","a","m","m","a"," ","D","e","l","t","a">>)
  /\ Len(vendor_candidates(text)) = 2
  /\ out = <<"A","l","p","h","a"," ","B","e","t","a">>

(***************************************************************************)
(* process_directory of a TextProcessor built from a Config whose options  *)
(* are set in the environment.                                             *)
(***************************************************************************)
\* the values of MAX_EXCERPT_LENGTH and of MAX_DATES_PER_FILE that the
\* environments set
ExcerptLengths == {20, 40}
DatesPerFile == {1, 2}
Environments ==
  {NoEnvironment}
    \cup {("MAX_EXCERPT_LENGTH" :> l) : l \in ExcerptLengths}
    \cup {("MAX_DATES_PER_FILE" :> d) : d \in DatesPerFile}
    \cup {("MAX_EXCERPT_LENGTH" :> l) @@ ("MAX_DATES_PER_FILE" :> d) :
            l \in ExcerptLengths, d \in DatesPerFile}
FourDatesText ==
  <<"S","h","i","p"," ","D","a","t","e",":"," ","0","4","/","1","5","/","2","0","2","4","\n","O","r","d","e","r"," ","D","a","t","e",":"," ","0","3","/","1","5","/","2","0","2","4","\n","D","u","e"," ","D","a","t","e",":"," ","0","2","/","1","5","/","2","0","2","4","\n","I","n","v","o","i","c","e"," ","D","a","t","e",":"," ","0","1","/","1","5","/","2","0","2","4">>
ConfigFileKinds ==
  { [read |-> "text", content |-> InvoiceText, fault |-> NoException],
    [read |-> "text", content |-> FourDatesText, fault |-> NoException],
    [read |-> "text", content |-> NoteText, fault |-> NoException] }
ConfigDirectories ==
  UNION { { [i \in 1..n |-> [name |-> FileNames[i]] @@ kinds[i]] :
              kinds \in [1..n -> ConfigFileKinds] } : n \in 0..MaxFiles }

InitConfig ==
  /\ pc = "glob"
  /\ config \in {Config(env) : env \in Environments}
  /\ txt_files \in ConfigDirectories
  /\ idx = 1
  /\ results = <<>>
  /\ csv = <<>>
  /\ text = <<>>
  /\ out = <<>>
SpecConfig == InitConfig /\ [][Next]_vars

\* the excerpt of a collapsed text under the limit l
TruncatedAt(collapsed, l) ==
  IF Len(collapsed) <= l THEN collapsed ELSE SubSeq(collapsed, 1, l) \o Ellipsis

\* C12: the records of a TextProcessor built from a Config have text_excerpt
\* truncated at the max_excerpt_length of the Config and at most its
\* max_dates_per_file dates.
C12_ConfiguredThresholds ==
  \A i \in 1..Len(results) :
    /\ results[i].text_excerpt =
         TruncatedAt(Collapsed(txt_files[i].content), config.max_excerpt_length)
    /\ results[i].date_count <= config.max_dates_per_file

(***************************************************************************)
(* process_directory on directories where the first file stands again as   *)
(* the last one.                                                           *)
(***************************************************************************)
\* the greatest number of files between the two
MaxBetween == 1
RepeatDirectories ==
  {<<>>}
    \cup UNION { { [i \in 1..(n + 2) |->
                     [name |-> FileNames[i]]
                       @@ (IF i = 1 \/ i = n + 2 THEN kind ELSE between[i - 1])] :
                   kind \in FileKinds, between \in [1..n -> FileKinds] } :
                 n \in 0..MaxBetween }

InitRepeat ==
  /\ pc = "glob"
  /\ txt_files \in RepeatDirectories
  /\ idx = 1
  /\ results = <<>>
  /\ csv = <<>>
  /\ text = <<>>
  /\ out = <<>>
  /\ config = Config(NoEnvironment)
SpecRepeat == InitRepeat /\ [][Next]_vars

\* two files are the same document: what is read, what it holds, and what
\* an extractor raises on it
SameDocument(f, g) ==
  f.read = g.read /\ f.content = g.content /\ f.fault = g.fault
SameButFilename(r, q) ==
  /\ DOMAIN r = DOMAIN q
  /\ \A key \in DOMAIN r \ {"filename"} : r[key] = q[key]

=============================================================================
